---- MODULE Spec2Model ----
(***************************************************************************)
(* State-machine model of the desktop OpenGL backend of sprite-render      *)
(* (src/src/backends/opengl.rs): GlSpriteRender, its per-window contexts,   *)
(* the shared GL resources and the GlRenderer draw session.                 *)
(*                                                                         *)
(* Rust's Option<T> is modelled as a sequence of length 0 (None) or 1      *)
(* (Some(x)); a HashMap as a function whose DOMAIN is its key set.          *)
(***************************************************************************)
EXTENDS Integers, Sequences, FiniteSets, TLC

\* ---------------------------------------------------------------- bounds
NumWindows == 3          \* window ids the event loop hands to the renderer
MaxContexts == 3         \* native contexts created in one run (Context::new calls)
MaxTextureUnits == 2     \* largest value GL_MAX_TEXTURE_IMAGE_UNITS reports
MaxSprites == 3          \* longest sprite slice passed to draw_sprites
MaxGenTextures == 1      \* glGenTextures calls per share group
MaxExtent == 4           \* largest view extent (and 1/smallest) scale_view reaches
MaxCoordinate == 1       \* largest |x|, |y| move_view reaches
MaxSizeNeed == 16385     \* longest slice that makes a vertex buffer grow

\* ------------------------------------------------------- program constants
SPRITE_VERTEX_STRIDE == 24
U16 == 65536

Windows == 1..NumWindows
\* TextureId values sprites may carry; 0 is TextureId::default().
TextureIds == {0, 1, 2}
\* (width, height) pairs and pixel-data lengths offered to new_texture during
\* a draw session, as byte sequences (see the section on integers).
TextureDims == {<<<<1>>, <<1>>>>}
DataLens == {<<4>>, <<8>>}
\* Camera centres the caller moves the camera to, as fractions (see the
\* section on the camera's numbers).
CameraPositions == {<<<<1, 1>>, <<2, 1>>>>}

None == <<>>
Some(x) == <<x>>
IsSome(o) == o /= <<>>
Unwrap(o) == o[1]

VARIABLES
    contexts,          \* GlSpriteRender.contexts: WindowId -> Option<Context<NotCurrent>>
    current_context,   \* GlSpriteRender.current_context: Option<(WindowId, Context)>
    major_version,     \* GlSpriteRender.major_version
    shared_resources,  \* GlSpriteRender.shared_resources: Option<SharedResources>
    camera,            \* the caller's Camera, lent to draw_sprites
    renderer,          \* the live Box<dyn Renderer> session, if any
    created,           \* number of native contexts created so far
    last,              \* the native calls issued by the last handler that ran
    panicked,          \* a handler panicked: the thread unwinds, nothing runs after
    sprite_render      \* the single-window SpriteRender of lib.rs and its draw in flight

vars == <<contexts, current_context, major_version, shared_resources, camera,
          renderer, created, last, panicked, sprite_render>>

\* ------------------------------------------------------------------ log
\* What the last handler did at the graphics API, reset by every handler.
NoCalls ==
    [op |-> "none", window |-> 0, sprites |-> <<>>, result |-> "ok",
     realloc |-> <<>>, cleared |-> FALSE, binds |-> <<>>, data |-> <<>>,
     uploads |-> <<>>, uniform_count |-> <<>>, draws |-> <<>>, panic_at |-> 0,
     created_contexts |-> <<>>, gen_textures |-> 0, tex_uploads |-> 0,
     active_unit |-> <<>>, native |-> <<>>, args |-> <<>>]

Call(op, w) == [NoCalls EXCEPT !.op = op, !.window = w]

\* ------------------------------------------------------------- HashMap
Insert(m, k, v) == [x \in (DOMAIN m) \cup {k} |-> IF x = k THEN v ELSE m[x]]
\* Faulty variant: the key stays in the map.
Remove_Kept(m, k) == m

Remove(m, k) == [x \in (DOMAIN m) \ {k} |-> m[x]]
EmptyMap == [x \in {} |-> 0]

\* ------------------------------------------------------------- Context
\* Context::new: a fresh native context, sharing with `shared` when given,
\* returned current and without a vertex-array object.
ContextNew(id, shared) == [id |-> id, shared |-> shared, vao |-> None]

\* The context add_window passes to Context::new as the one to share with.
ShareTarget(cur) == IF IsSome(cur) THEN Some(Unwrap(cur)[2].id) ELSE None

\* The ids of the native contexts the renderer holds.
LiveContexts(cs, cur) ==
    {Unwrap(cs[w]).id : w \in {x \in DOMAIN cs : IsSome(cs[x])}}
        \cup (IF IsSome(cur) THEN {Unwrap(cur)[2].id} ELSE {})

\* create_vao: a vertex-array object is generated only above OpenGL 2; the
\* name is the next unused one of the context it is generated in.
CreateVao(ctx, major) ==
    IF major > 2
    THEN Some(IF IsSome(ctx.vao) THEN Unwrap(ctx.vao) + 1 ELSE 1)
    ELSE None

\* Faulty variant: the buffer capacity of the previous resources is kept.
CreateResources_BufferKept(max_texture_units) ==
    [buffer_size |-> 1, textures |-> <<>>, texture_unit_map |-> EmptyMap,
     max_texture_units |-> max_texture_units, generated |-> 0]

\* create_resources: the shared resources of a new share group.
CreateResources(max_texture_units) ==
    [buffer_size |-> 0, textures |-> <<>>, texture_unit_map |-> EmptyMap,
     max_texture_units |-> max_texture_units, generated |-> 0]

\* Faulty variant: the demoted context is dropped instead of stored back.
Demote_Dropped(cs, previous_context) == cs

\* Faulty variant: the demoted context loses its vertex-array object.
Demote_VaoLost(cs, previous_context) ==
    [cs EXCEPT ![previous_context[1]] = Some([previous_context[2] EXCEPT !.vao = None])]

\* The previously current context goes back into its window's slot of the map
\* as NotCurrent.
Demote(cs, previous_context) ==
    [cs EXCEPT ![previous_context[1]] = Some(previous_context[2])]

\* set_current_context(window_id). make_current_ok and make_not_current_ok
\* are the outcomes of the two native calls. Yields the fields it leaves
\* behind, how it ended: "ok", "err" (the ? operator) or "panic" (unwrap), and
\* the native calls it issued, in order, each with the context it was made on.
SetCurrentContext(cs, cur, window_id, make_current_ok, make_not_current_ok) ==
    LET already_current == IsSome(cur) /\ Unwrap(cur)[1] = window_id IN
    IF already_current
    THEN [contexts |-> cs, current_context |-> cur,
          result |-> IF make_current_ok THEN "ok" ELSE "err",
          native |-> <<<<"make_current", Unwrap(cur)[2].id>>>>]
    ELSE IF window_id \notin DOMAIN cs \/ ~IsSome(cs[window_id])
    THEN [contexts |-> cs, current_context |-> None, result |-> "panic",
          native |-> <<>>]
    ELSE LET taken == Unwrap(cs[window_id])
             cs1 == [cs EXCEPT ![window_id] = None]
             next == Some(<<window_id, taken>>)
             made == <<<<"make_current", taken.id>>>>
             both == IF IsSome(cur)
                     THEN Append(made, <<"make_not_current", Unwrap(cur)[2].id>>)
                     ELSE made
         IN  IF ~make_current_ok
             THEN [contexts |-> cs1, current_context |-> None, result |-> "err",
                   native |-> made]
             ELSE IF ~IsSome(cur)
             THEN [contexts |-> cs1, current_context |-> next, result |-> "ok",
                   native |-> made]
             ELSE IF ~make_not_current_ok
             THEN [contexts |-> cs1, current_context |-> next, result |-> "err",
                   native |-> both]
             ELSE IF Unwrap(cur)[1] \notin DOMAIN cs1
             THEN [contexts |-> cs1, current_context |-> next, result |-> "panic",
                   native |-> both]
             ELSE [contexts |-> Demote(cs1, Unwrap(cur)),
                   current_context |-> next, result |-> "ok", native |-> both]

\* ------------------------------------------------------ Camera: numbers
\* The camera's position and extent are f32 values; they are modelled by the
\* exact values of the expressions that compute them, as fractions <<n, d>>
\* in lowest terms with d > 0.
RECURSIVE Gcd(_, _)
Gcd(a, b) == IF b = 0 THEN a ELSE Gcd(b, a % b)

Abs(n) == IF n < 0 THEN -n ELSE n

Frac(n, d) ==
    LET g == Gcd(Abs(n), Abs(d))
        sign == IF d < 0 THEN -1 ELSE 1
    IN  <<sign * (n \div g), sign * (d \div g)>>

\* `n as f32` for a screen dimension.
AsF32(n) == <<n, 1>>

Mul(a, b) == Frac(a[1] * b[1], a[2] * b[2])
Div(a, b) == Frac(a[1] * b[2], a[2] * b[1])
Add(a, b) == Frac(a[1] * b[2] + b[1] * a[2], a[2] * b[2])
Neg(a) == <<-a[1], a[2]>>
Less(a, b) == a[1] * b[2] < b[1] * a[2]

\* f32::min
Min(a, b) == IF Less(b, a) THEN b ELSE a

Zero == <<0, 1>>
One == <<1, 1>>
Two == <<2, 1>>

\* The rotation is an f32 whose rounding matters: it is counted in units of
\* 2^-23, in which every f32 below 2.0 that the model uses is a whole number,
\* an f32 in [2, 4) is a multiple of 2, one in [4, 8) a multiple of 4 and one
\* in [8, 16) a multiple of 8.
F32One == 8388608
\* 2.0 * PI in f32 (6.2831855), and half of it (PI in f32).
TwoPi == 52707180
HalfTurn == 26353590

\* The distance between neighbouring f32 values at magnitude v.
Ulp(v) ==
    IF Abs(v) < 2 * F32One THEN 1
    ELSE IF Abs(v) < 4 * F32One THEN 2
    ELSE IF Abs(v) < 8 * F32One THEN 4
    ELSE 8

\* The f32 nearest to the exact result v, ties to the even mantissa.
RoundF32(v) ==
    LET u == Ulp(v)
        q == Abs(v) \div u
        r == Abs(v) % u
        sign == IF v < 0 THEN -1 ELSE 1
        up == \/ 2 * r > u
              \/ (2 * r = u /\ q % 2 = 1)
    IN  sign * (IF up THEN q + 1 ELSE q) * u

\* a % m on f32: exact, with the sign of a.
Rem(a, m) == IF a < 0 THEN -((-a) % m) ELSE a % m

\* f32::rem_euclid: r = a % m; if r < 0.0 { r + m.abs() } else { r }
RemEuclid(a, m) ==
    LET r == Rem(a, m) IN
    IF r < 0 THEN RoundF32(r + Abs(m)) ELSE r

\* --------------------------------------------------------------- Camera
\* An entry of the view matrix is c0 + c1 * cos(angle) + c2 * sin(angle),
\* kept as <<c0, c1, c2>>; the matrix is its nine entries and the angle.
Const(v) == <<v, Zero, Zero>>
Cos(v) == <<Zero, v, Zero>>
Sin(v) == <<Zero, Zero, v>>
CosSin(c, d) == <<Zero, c, d>>

Identity ==
    [angle |-> 0,
     m |-> <<Const(One), Const(Zero), Const(Zero),
             Const(Zero), Const(One), Const(Zero),
             Const(Zero), Const(Zero), Const(One)>>]

\* Camera::new(screen_width, screen_height, height)
CameraNew(screen_width, screen_height, height) ==
    [x |-> Zero, y |-> Zero,
     width |-> Div(Mul(height, AsF32(screen_width)), AsF32(screen_height)),
     height |-> height,
     rotation |-> 0,
     screen_size |-> <<screen_width, screen_height>>,
     view_matrix |-> Identity,
     dirty |-> TRUE]

\* Faulty variant: the matrix scales but does not translate.
ViewMatrix_NoTranslation(c) ==
    [angle |-> c.rotation,
     m |-> <<Const(Div(Two, c.width)), Const(Zero), Const(Zero),
             Const(Zero), Const(Div(Two, c.height)), Const(Zero),
             Const(Zero), Const(Zero), Const(One)>>]

\* The matrix view() computes from the camera's fields.
ViewMatrix(c) ==
    LET w == Div(Two, c.width)
        h == Div(Two, c.height)
    IN  IF c.rotation = 0
        THEN [angle |-> 0,
              m |-> <<Const(w), Const(Zero), Const(Mul(Neg(c.x), w)),
                      Const(Zero), Const(h), Const(Mul(Neg(c.y), h)),
                      Const(Zero), Const(Zero), Const(One)>>]
        ELSE [angle |-> c.rotation,
              m |-> <<Cos(w), Sin(w), CosSin(Neg(Mul(c.x, w)), Neg(Mul(c.y, w))),
                      Sin(Neg(h)), Cos(h), CosSin(Neg(Mul(c.y, h)), Mul(c.x, h)),
                      Const(Zero), Const(Zero), Const(One)>>]

\* Camera::view: recompute the matrix when dirty, then clear the flag.
CameraView(c) ==
    IF c.dirty
    THEN [c EXCEPT !.dirty = FALSE, !.view_matrix = ViewMatrix(c)]
    ELSE c

\* Faulty variant: the height is set but the width is not re-derived.
CameraSetHeightTo_WidthKept(c, new_height) ==
    [c EXCEPT !.height = new_height, !.dirty = TRUE]

\* Camera::set_height
CameraSetHeightTo(c, new_height) ==
    [c EXCEPT !.width = Div(Mul(new_height, AsF32(c.screen_size[1])),
                            AsF32(c.screen_size[2])),
              !.height = new_height,
              !.dirty = TRUE]

\* Camera::set_width
CameraSetWidthTo(c, new_width) ==
    [c EXCEPT !.height = Div(Mul(new_width, AsF32(c.screen_size[2])),
                             AsF32(c.screen_size[1])),
              !.width = new_width,
              !.dirty = TRUE]

\* Faulty variant: the larger dimension is the one that is kept.
Side_Larger(c) == IF Less(c.width, c.height) THEN c.height ELSE c.width

\* self.width.min(self.height)
Side(c) == Min(c.width, c.height)

\* Camera::resize
CameraResizeTo(c, screen_width, screen_height) ==
    LET sized == [c EXCEPT !.screen_size = <<screen_width, screen_height>>] IN
    IF screen_width > screen_height
    THEN CameraSetHeightTo(sized, Side(c))
    ELSE CameraSetWidthTo(sized, Side(c))

\* Camera::set_minor_size
CameraSetMinorSizeTo(c, size) ==
    IF c.screen_size[1] > c.screen_size[2]
    THEN CameraSetHeightTo(c, size)
    ELSE CameraSetWidthTo(c, size)

\* Faulty variant: the position changes without the flag being set.
CameraSetPositionTo_FlagUnset(c, x, y) == [c EXCEPT !.x = x, !.y = y]

\* Camera::set_position
CameraSetPositionTo(c, x, y) == [c EXCEPT !.x = x, !.y = y, !.dirty = TRUE]

\* Camera::move_view
CameraMoveViewBy(c, dx, dy) ==
    [c EXCEPT !.x = Add(@, dx), !.y = Add(@, dy), !.dirty = TRUE]

\* Camera::set_view_rotation
CameraSetViewRotationTo(c, radians) ==
    [c EXCEPT !.rotation = RemEuclid(radians, TwoPi), !.dirty = TRUE]

\* Camera::rotate_view
CameraRotateViewBy(c, radians) ==
    [c EXCEPT !.rotation = RemEuclid(RoundF32(@ + radians), TwoPi), !.dirty = TRUE]

\* Camera::scale_view
CameraScaleViewBy(c, scalar) == CameraSetHeightTo(c, Mul(c.height, scalar))

\* -------------------------------------------------------- draw_sprites
RECURSIVE PowerOfTwoFrom(_, _)
PowerOfTwoFrom(p, n) == IF p >= n THEN p ELSE PowerOfTwoFrom(2 * p, n)

\* usize::next_power_of_two: the smallest power of two >= n (1 for n = 0).
NextPowerOfTwo(n) == PowerOfTwoFrom(1, n)

\* Faulty variant: off by one, a full buffer is reallocated too.
NeedsReallocation_OrEqual(n, buffer_size) == n >= buffer_size

\* The test that guards the reallocation: sprites.len() > buffer_size.
NeedsReallocation(n, buffer_size) == n > buffer_size

\* Faulty variant: the buffer is sized to the slice, not to a power of two.
ReallocateVertexBuffer_Exact(res, size_need) ==
    [res EXCEPT !.buffer_size = size_need]

\* SharedResources::reallocate_vertex_buffer: buffer_size = new_size as u32
\* (slices stay far below 2^32 sprites, where the cast is the identity).
ReallocateVertexBuffer(res, size_need) ==
    [res EXCEPT !.buffer_size = NextPowerOfTwo(size_need)]

\* Faulty variant: no early return for an empty slice.
ReturnsEarly_Never(sprites) == FALSE

\* The test that makes draw_sprites return at once.
ReturnsEarly(sprites) == Len(sprites) = 0

\* Faulty variant: the map is not cleared.
ClearedMap_Kept(map) == map

\* texture_unit_map.clear()
ClearedMap(map) == EmptyMap

\* Faulty variant: units are handed out from 1.
NextUnit_FromOne(map) == Cardinality(DOMAIN map) + 1

\* The unit a texture missing from the map is bound to: the map's length.
NextUnit(map) == Cardinality(DOMAIN map)

\* Faulty variant: the last unit is never handed out.
UnitsExhausted_OneEarly(map, max_texture_units) ==
    Cardinality(DOMAIN map) >= max_texture_units - 1

\* Faulty variant: the test is off by one, a unit past the last is handed out.
UnitsExhausted_OneLate(map, max_texture_units) ==
    Cardinality(DOMAIN map) = max_texture_units + 1

\* The test that makes the loop hit unimplemented!().
UnitsExhausted(map, max_texture_units) == Cardinality(DOMAIN map) = max_texture_units

\* Faulty variant: the last vertex is written without the unit.
WriteSprite_LastVertexUnit0(i, texture) ==
    [k \in 1..4 |->
        [sprite |-> i,
         corner |-> <<"bottom left", "bottom right", "top left", "top right">>[k],
         texture |-> IF k = 4 THEN 0 ELSE texture]]

\* write_sprite: the four vertices of sprite i, each carrying the unit as u16.
WriteSprite(i, texture) ==
    [k \in 1..4 |->
        [sprite |-> i,
         corner |-> <<"bottom left", "bottom right", "top left", "top right">>[k],
         texture |-> texture]]

\* The unit draw_sprites hands to write_sprite: texture_unit as u16.
AsU16(unit) == unit % U16

\* The loop over the slice, from sprite i on. A sprite is modelled by the
\* TextureId it carries. st.panic_at is the index of the sprite at which
\* unimplemented!() was hit, 0 when the loop ran to its end.
RECURSIVE WriteSprites(_, _, _, _)
WriteSprites(sprites, i, st, max_texture_units) ==
    IF i > Len(sprites) THEN st
    ELSE LET texture == sprites[i] IN
         IF texture \in DOMAIN st.map
         THEN WriteSprites(sprites, i + 1,
                  [st EXCEPT !.data = @ \o WriteSprite(i, AsU16(st.map[texture]))],
                  max_texture_units)
         ELSE IF UnitsExhausted(st.map, max_texture_units)
         THEN [st EXCEPT !.panic_at = i]
         ELSE LET unit == NextUnit(st.map) IN
              WriteSprites(sprites, i + 1,
                  [st EXCEPT !.map = Insert(@, texture, unit),
                             !.binds = Append(@, [unit |-> unit, texture |-> texture]),
                             !.data = @ \o WriteSprite(i, AsU16(unit))],
                  max_texture_units)

\* Faulty variant: four indices per sprite, as for a triangle strip.
IndexCount_Strip(n) == n * 4

\* The number of indices of the draw command: sprites.len() as i32 * 6.
IndexCount(n) == n * 6

\* The number of sampler indices draw_sprites uploads to the `text` uniform.
UniformCount == 16

\* The array the upload reads from: (0..max_texture_units).collect().
TextUnits(max_texture_units) == [i \in 1..max_texture_units |-> i - 1]

\* ------------------------------------------------- GlSpriteRender: state
\* OpenGL major versions the driver may report (below 2 is rejected).
GlMajorVersions == {1, 2, 3}

\* create_context_and_resources(window) when it returns Ok, the native context
\* being number id: the fields it assigns.
CreateContextAndResources(window, id, major, max_texture_units) ==
    LET context == ContextNew(id, None) IN
    [contexts |-> Insert(EmptyMap, window, None),
     current_context |->
         Some(<<window, [context EXCEPT !.vao = CreateVao(context, major)]>>),
     major_version |-> major,
     shared_resources |-> Some(CreateResources(max_texture_units))]

\* GlSpriteRender::new(window) returned Ok for window 1.
\* ------------------------------------------- SpriteRender (lib.rs)
\* INSTANCE_STRIDE = 16 * size_of::<GLfloat>() and size_of::<SpriteInstance>()
\* (two, one and four f32, four u8, two f32 and a u32 texture name).
INSTANCE_STRIDE == 64
SizeOfSpriteInstance == 44

\* SpriteRender::new: an empty instance buffer and no texture bound. pc is the
\* place the draw in flight has reached ("idle" between draws), mapped the
\* length of the range MapBufferRange returned (None for a null pointer),
\* write_end the end of the last record written through the cursor.
SpriteRenderNew ==
    [instance_buffer_size |-> 0, texture_unit_map |-> EmptyMap, pc |-> "idle",
     sprites |-> <<>>, mapped |-> None, write_end |-> 0]

\* gl_check_error!: GetError is read until it returns NO_ERROR, and that last
\* value is what the function returns, whatever errors were pending.
GlCheckError(pending) == "NO_ERROR"

\* The test that ends the map-write-unmap loop:
\* b = UnmapBuffer(..) == TRUE; b = NO_ERROR != gl_check_error!(..) || b.
LeavesLoop(unmapped, pending) ==
    LET b == unmapped IN ("NO_ERROR" /= GlCheckError(pending)) \/ b

\* The for loop of draw over the slice, from sprite i on: a texture missing
\* from the map is bound to the unit map.len() and inserted.
RECURSIVE BindUnits(_, _, _)
BindUnits(sprites, i, map) ==
    IF i > Len(sprites) THEN map
    ELSE IF sprites[i] \in DOMAIN map THEN BindUnits(sprites, i + 1, map)
    ELSE BindUnits(sprites, i + 1, Insert(map, sprites[i], Cardinality(DOMAIN map)))

Init ==
    \E major \in GlMajorVersions \ {1}, max_texture_units \in 1..MaxTextureUnits :
        LET made == CreateContextAndResources(1, 1, major, max_texture_units)
        IN  /\ contexts = made.contexts
            /\ current_context = made.current_context
            /\ major_version = made.major_version
            /\ shared_resources = made.shared_resources
            /\ camera = CameraNew(800, 400, Two)
            /\ renderer = None
            /\ created = 1
            /\ last = [Call("new", 1) EXCEPT
                          !.created_contexts = <<[id |-> 1, shared |-> None, live |-> {}]>>]
            /\ panicked = FALSE
            /\ sprite_render = SpriteRenderNew

\* No handler runs on a renderer that is lent to a session or has panicked.
Idle == ~panicked /\ renderer = None

\* add_window(window)
AddWindow(window_id, context_ok, make_current_ok, make_not_current_ok) ==
    /\ Idle
    /\ UNCHANGED sprite_render
    /\ created < MaxContexts
    /\ UNCHANGED <<major_version, shared_resources, camera, renderer>>
    /\ IF ~context_ok
       THEN \* Context::new(..).unwrap() or make_not_current().unwrap()
            /\ panicked' = TRUE
            /\ last' = [Call("add_window", window_id) EXCEPT !.result = "panic"]
            /\ UNCHANGED <<contexts, current_context, created>>
       ELSE LET shared == ShareTarget(current_context)
                context == ContextNew(created + 1, shared)
                log == [Call("add_window", window_id) EXCEPT
                           !.created_contexts =
                               <<[id |-> context.id, shared |-> shared,
                                  live |-> LiveContexts(contexts, current_context)]>>]
                inserted == Insert(contexts, window_id, Some(context))
                set == SetCurrentContext(inserted, current_context, window_id,
                                         make_current_ok, make_not_current_ok)
            IN  /\ created' = created + 1
                /\ contexts' = set.contexts
                /\ IF set.result /= "ok" \/ ~IsSome(shared_resources)
                   THEN /\ current_context' = set.current_context
                        /\ panicked' = TRUE
                        /\ last' = [log EXCEPT !.result = "panic"]
                   ELSE LET cur == Unwrap(set.current_context) IN
                        /\ current_context' =
                               Some(<<cur[1],
                                      [cur[2] EXCEPT !.vao = CreateVao(cur[2], major_version)]>>)
                        /\ panicked' = FALSE
                        /\ last' = log

\* self.contexts.remove(&window_id).flatten(): the context stored for the id.
Flatten(cs, window_id) ==
    IF window_id \in DOMAIN cs THEN cs[window_id] ELSE None

\* The native calls that drop the contexts of an Option<Context>.
Drops(context) == IF IsSome(context) THEN <<<<"drop", Unwrap(context).id>>>> ELSE <<>>

\* remove_window(window_id). The context taken from the map is dropped when
\* the variable is overwritten by the released current context or at the end.
RemoveWindow(window_id, make_not_current_ok) ==
    /\ Idle
    /\ UNCHANGED sprite_render
    /\ UNCHANGED <<major_version, shared_resources, camera, renderer, created>>
    /\ contexts' = Remove(contexts, window_id)
    /\ LET context == Flatten(contexts, window_id) IN
       IF IsSome(current_context) /\ Unwrap(current_context)[1] = window_id
       THEN LET released == <<"make_not_current", Unwrap(current_context)[2].id>> IN
            /\ current_context' = None
            /\ panicked' = ~make_not_current_ok
            /\ last' = [Call("remove_window", window_id) EXCEPT
                           !.result = IF make_not_current_ok THEN "ok" ELSE "panic",
                           !.native =
                               IF make_not_current_ok
                               THEN <<released>> \o Drops(context)
                                        \o Drops(Some(Unwrap(current_context)[2]))
                               ELSE <<released>> \o Drops(context)]
       ELSE /\ UNCHANGED <<current_context, panicked>>
            /\ last' = [Call("remove_window", window_id) EXCEPT
                           !.native = Drops(context)]

\* render(window_id): the session it returns is held in `renderer`.
Render(window_id, make_current_ok, make_not_current_ok) ==
    /\ Idle
    /\ UNCHANGED sprite_render
    /\ UNCHANGED <<major_version, shared_resources, camera, created>>
    /\ IF ~IsSome(shared_resources)
       THEN /\ renderer' = Some("noop")
            /\ last' = Call("render", window_id)
            /\ UNCHANGED <<contexts, current_context, panicked>>
       ELSE LET set == SetCurrentContext(contexts, current_context, window_id,
                                         make_current_ok, make_not_current_ok)
            IN  /\ contexts' = set.contexts
                /\ current_context' = set.current_context
                /\ panicked' = (set.result /= "ok")
                /\ renderer' = IF set.result = "ok" THEN Some("gl") ELSE None
                /\ last' = [Call("render", window_id) EXCEPT
                               !.result = IF set.result = "ok" THEN "ok" ELSE "panic",
                               !.native = set.native]

\* The session returned by render is dropped.
DropRenderer ==
    /\ ~panicked
    /\ UNCHANGED sprite_render
    /\ IsSome(renderer)
    /\ renderer' = None
    /\ last' = Call("drop", 0)
    /\ UNCHANGED <<contexts, current_context, major_version, shared_resources,
                   camera, created, panicked>>

\* Faulty variant: resize without the test for shared resources.
Resize_Unchecked(window_id, make_current_ok, make_not_current_ok) ==
    /\ Idle
    /\ UNCHANGED sprite_render
    /\ UNCHANGED <<major_version, shared_resources, camera, renderer, created>>
    /\ LET set == SetCurrentContext(contexts, current_context, window_id,
                                    make_current_ok, make_not_current_ok)
       IN  /\ contexts' = set.contexts
           /\ current_context' = set.current_context
           /\ panicked' = (set.result /= "ok")
           /\ last' = [Call("resize", window_id) EXCEPT
                          !.result = IF set.result = "ok" THEN "ok" ELSE "panic",
                          !.native = set.native]

\* resize(window_id, width, height): the size only reaches gl::Viewport.
Resize(window_id, make_current_ok, make_not_current_ok) ==
    /\ Idle
    /\ UNCHANGED sprite_render
    /\ UNCHANGED <<major_version, shared_resources, camera, renderer, created>>
    /\ IF ~IsSome(shared_resources)
       THEN /\ last' = Call("resize", window_id)
            /\ UNCHANGED <<contexts, current_context, panicked>>
       ELSE LET set == SetCurrentContext(contexts, current_context, window_id,
                                         make_current_ok, make_not_current_ok)
            IN  /\ contexts' = set.contexts
                /\ current_context' = set.current_context
                /\ panicked' = (set.result /= "ok")
                /\ last' = [Call("resize", window_id) EXCEPT
                               !.result = IF set.result = "ok" THEN "ok" ELSE "panic",
                               !.native = set.native]

\* Faulty variant: the shared resources survive the suspend.
Suspend_ResourcesKept ==
    /\ Idle
    /\ UNCHANGED sprite_render
    /\ contexts' = EmptyMap
    /\ current_context' = None
    /\ major_version' = 0
    /\ last' = Call("suspend", 0)
    /\ UNCHANGED <<shared_resources, camera, renderer, created, panicked>>

\* suspend()
Suspend ==
    /\ Idle
    /\ UNCHANGED sprite_render
    /\ contexts' = EmptyMap
    /\ current_context' = None
    /\ major_version' = 0
    /\ shared_resources' = None
    /\ last' = Call("suspend", 0)
    /\ UNCHANGED <<camera, renderer, created, panicked>>

\* resume(window): create_context_and_resources(window).unwrap(), which
\* returns Err when Context::new fails or the version is below 2 (nothing is
\* assigned then) and whose last step is self.resize(window.id(), ..).
Resume(window_id, context_ok, major, max_texture_units, make_current_ok) ==
    /\ Idle
    /\ UNCHANGED sprite_render
    /\ created < MaxContexts
    /\ UNCHANGED <<camera, renderer>>
    /\ LET made == CreateContextAndResources(window_id, created + 1, major,
                                             max_texture_units)
           log == [Call("resume", window_id) EXCEPT
                      !.created_contexts =
                          IF context_ok
                          THEN <<[id |-> created + 1, shared |-> None,
                                  live |-> LiveContexts(contexts, current_context)]>>
                          ELSE <<>>]
       IN  /\ created' = IF context_ok THEN created + 1 ELSE created
           /\ IF ~context_ok \/ major < 2
              THEN /\ panicked' = TRUE
                   /\ last' = [log EXCEPT !.result = "panic"]
                   /\ UNCHANGED <<contexts, current_context, major_version,
                                  shared_resources>>
              ELSE /\ contexts' = made.contexts
                   /\ current_context' = made.current_context
                   /\ major_version' = made.major_version
                   /\ shared_resources' = made.shared_resources
                   /\ panicked' = ~make_current_ok
                   /\ last' = [log EXCEPT !.result = IF make_current_ok THEN "ok"
                                                     ELSE "panic"]

\* ------------------------------------------------------------ GlRenderer
InSession(kind) == ~panicked /\ renderer = Some(kind)

\* clear_screen(color)
ClearScreen ==
    /\ InSession("gl")
    /\ UNCHANGED sprite_render
    /\ last' = Call("clear_screen", 0)
    /\ UNCHANGED <<contexts, current_context, major_version, shared_resources,
                   camera, renderer, created, panicked>>

\* draw_sprites(camera, sprites), a sprite being the TextureId it carries.
DrawSprites(sprites) ==
    /\ InSession("gl")
    /\ UNCHANGED sprite_render
    /\ UNCHANGED <<contexts, current_context, major_version, renderer, created>>
    /\ IF ~IsSome(shared_resources)
       THEN /\ panicked' = TRUE
            /\ last' = [Call("draw_sprites", 0) EXCEPT !.sprites = sprites,
                                                       !.result = "panic"]
            /\ UNCHANGED <<shared_resources, camera>>
       ELSE
       LET res == Unwrap(shared_resources)
           n == Len(sprites)
           log == [Call("draw_sprites", Unwrap(current_context)[1]) EXCEPT
                      !.sprites = sprites]
       IN  IF ReturnsEarly(sprites)
           THEN /\ last' = log
                /\ UNCHANGED <<shared_resources, camera, panicked>>
           ELSE LET grow == NeedsReallocation(n, res.buffer_size)
                    res1 == IF grow THEN ReallocateVertexBuffer(res, n) ELSE res
                    loop == WriteSprites(sprites, 1,
                                [map |-> ClearedMap(res1.texture_unit_map), binds |-> <<>>,
                                 data |-> <<>>, panic_at |-> 0],
                                res1.max_texture_units)
                    res2 == [res1 EXCEPT !.texture_unit_map = loop.map]
                    log1 == [log EXCEPT
                                !.realloc = IF grow THEN <<res1.buffer_size>> ELSE <<>>,
                                !.cleared = TRUE,
                                !.binds = loop.binds,
                                !.data = loop.data,
                                !.panic_at = loop.panic_at]
                IN  /\ shared_resources' = Some(res2)
                    /\ IF loop.panic_at /= 0
                       THEN /\ panicked' = TRUE
                            /\ last' = [log1 EXCEPT !.result = "panic"]
                            /\ UNCHANGED camera
                       ELSE /\ panicked' = FALSE
                            /\ camera' = CameraView(camera)
                            /\ last' = [log1 EXCEPT
                                           !.uploads = <<Len(loop.data) * SPRITE_VERTEX_STRIDE>>,
                                           !.uniform_count = <<UniformCount>>,
                                           !.draws = <<IndexCount(n)>>]

\* finish(): swap_buffers().unwrap() on the current context.
Finish(swap_ok) ==
    /\ InSession("gl")
    /\ UNCHANGED sprite_render
    /\ panicked' = (~swap_ok \/ ~IsSome(current_context))
    /\ last' = [Call("finish", 0) EXCEPT !.result = IF panicked' THEN "panic" ELSE "ok"]
    /\ UNCHANGED <<contexts, current_context, major_version, shared_resources,
                   camera, renderer, created>>

\* The session render returns while no shared resources exist does nothing
\* in clear_screen, draw_sprites and finish.
NoopRendererCall(op) ==
    /\ InSession("noop")
    /\ UNCHANGED sprite_render
    /\ last' = Call(op, 0)
    /\ UNCHANGED <<contexts, current_context, major_version, shared_resources,
                   camera, renderer, created, panicked>>

\* --------------------------------------------------------------- caller
\* The caller moves its camera between draws (Camera::set_position).
CameraSetPosition(x, y) ==
    /\ ~panicked
    /\ UNCHANGED sprite_render
    /\ camera' = CameraSetPositionTo(camera, x, y)
    /\ last' = Call("set_position", 0)
    /\ UNCHANGED <<contexts, current_context, major_version, shared_resources,
                   renderer, created, panicked>>

\* The caller's other camera calls. CameraCall is a call that leaves the
\* camera as `c`; the renderer is not involved.
CameraCall(op, args, c) ==
    /\ ~panicked
    /\ UNCHANGED sprite_render
    /\ camera' = c
    /\ last' = [Call(op, 0) EXCEPT !.args = args]
    /\ UNCHANGED <<contexts, current_context, major_version, shared_resources,
                   renderer, created, panicked>>

\* The extent stays within the range the caller zooms in.
InRange(c) ==
    /\ ~Less(<<MaxExtent, 1>>, c.width) /\ ~Less(c.width, <<1, MaxExtent>>)
    /\ ~Less(<<MaxExtent, 1>>, c.height) /\ ~Less(c.height, <<1, MaxExtent>>)

\* The centre stays within the world the caller scrolls over.
InWorld(c) ==
    /\ ~Less(<<MaxCoordinate, 1>>, c.x) /\ ~Less(c.x, <<-MaxCoordinate, 1>>)
    /\ ~Less(<<MaxCoordinate, 1>>, c.y) /\ ~Less(c.y, <<-MaxCoordinate, 1>>)

CameraCreate(screen_width, screen_height, height) ==
    CameraCall("Camera::new", <<screen_width, screen_height, height>>,
               CameraNew(screen_width, screen_height, height))

CameraResize(screen_width, screen_height) ==
    CameraCall("Camera::resize", <<screen_width, screen_height>>,
               CameraResizeTo(camera, screen_width, screen_height))

CameraSetWidth(new_width) ==
    CameraCall("Camera::set_width", <<new_width>>, CameraSetWidthTo(camera, new_width))

CameraSetHeight(new_height) ==
    CameraCall("Camera::set_height", <<new_height>>,
               CameraSetHeightTo(camera, new_height))

CameraSetMinorSize(size) ==
    CameraCall("Camera::set_minor_size", <<size>>, CameraSetMinorSizeTo(camera, size))

CameraScaleView(scalar) ==
    /\ InRange(CameraScaleViewBy(camera, scalar))
    /\ CameraCall("Camera::scale_view", <<scalar>>, CameraScaleViewBy(camera, scalar))

CameraMoveView(dx, dy) ==
    /\ InWorld(CameraMoveViewBy(camera, dx, dy))
    /\ CameraCall("Camera::move_view", <<dx, dy>>, CameraMoveViewBy(camera, dx, dy))

CameraSetViewRotation(radians) ==
    CameraCall("Camera::set_view_rotation", <<radians>>,
               CameraSetViewRotationTo(camera, radians))

CameraRotateView(radians) ==
    CameraCall("Camera::rotate_view", <<radians>>, CameraRotateViewBy(camera, radians))

\* view(), as draw_sprites calls it; the log tells whether it recomputed.
CameraViewRead ==
    CameraCall("Camera::view", <<camera.dirty>>, CameraView(camera))

\* ------------------------------------------------------------- integers
\* Sizes and lengths are natural numbers written as little-endian sequences
\* of bytes without leading zero bytes (0 is <<>>), so that u32 and usize
\* values keep their width: a u32 has at most 4 bytes, a usize at most 8.
Byte == 256
U32Bytes == 4

RECURSIVE Num(_)
Num(n) == IF n = 0 THEN <<>> ELSE <<n % Byte>> \o Num(n \div Byte)

RECURSIVE Norm(_)
Norm(a) ==
    IF a = <<>> THEN <<>>
    ELSE IF a[Len(a)] = 0 THEN Norm(SubSeq(a, 1, Len(a) - 1))
    ELSE a

RECURSIVE Plus(_, _, _)
Plus(a, b, carry) ==
    IF a = <<>> /\ b = <<>> THEN (IF carry = 0 THEN <<>> ELSE <<carry>>)
    ELSE LET x == (IF a = <<>> THEN 0 ELSE Head(a))
                  + (IF b = <<>> THEN 0 ELSE Head(b)) + carry
         IN  <<x % Byte>> \o Plus(IF a = <<>> THEN <<>> ELSE Tail(a),
                                  IF b = <<>> THEN <<>> ELSE Tail(b), x \div Byte)

RECURSIVE TimesByte(_, _, _)
TimesByte(a, k, carry) ==
    IF a = <<>> THEN (IF carry = 0 THEN <<>> ELSE <<carry>>)
    ELSE LET x == Head(a) * k + carry
         IN  <<x % Byte>> \o TimesByte(Tail(a), k, x \div Byte)

\* The exact product of two natural numbers.
RECURSIVE Times(_, _)
Times(a, b) ==
    IF b = <<>> THEN <<>>
    ELSE Norm(Plus(TimesByte(a, Head(b), 0), <<0>> \o Times(a, Tail(b)), 0))

\* `x as u32`: the low 32 bits.
AsU32(a) == Norm(SubSeq(a, 1, IF Len(a) < U32Bytes THEN Len(a) ELSE U32Bytes))

\* a * b on u32 in a build without overflow checks: the product wraps.
WrappingMul(a, b) == AsU32(Times(a, b))

\* a * b on u32 overflows: a build with overflow checks panics here.
MulOverflows(a, b) == Len(Times(a, b)) > U32Bytes

\* ------------------------------------------------------------- textures
\* width * height * 4 on u32, left to right.
ExpectedLen(width, height) == WrappingMul(WrappingMul(width, height), Num(4))

\* width * height * 4 overflows u32 at one of its two multiplications.
ExpectedLenOverflows(width, height) ==
    \/ MulOverflows(width, height)
    \/ MulOverflows(WrappingMul(width, height), Num(4))

\* new_texture(texture); data is None or Some(length of the pixel data).
\* The texture object is generated and bound before the length is checked.
\* overflow_checks tells whether the build panics on arithmetic overflow.
NewTexture(width, height, data, overflow_checks) ==
    /\ Idle
    /\ UNCHANGED sprite_render
    /\ UNCHANGED <<contexts, current_context, major_version, camera, renderer,
                   created>>
    /\ IF ~IsSome(shared_resources)
       THEN /\ last' = [Call("new_texture", 0) EXCEPT
                           !.args = <<width, height, data>>,
                           !.result = "RendererContextDontExist"]
            /\ UNCHANGED <<shared_resources, panicked>>
       ELSE LET res == Unwrap(shared_resources)
                texture == res.generated + 1
                log == [Call("new_texture", 0) EXCEPT
                           !.args = <<width, height, data>>,
                           !.active_unit = <<Cardinality(DOMAIN res.texture_unit_map)>>,
                           !.gen_textures = 1]
            IN  /\ res.generated < MaxGenTextures
                /\ IF IsSome(data) /\ overflow_checks
                                   /\ ExpectedLenOverflows(width, height)
                   THEN /\ shared_resources' = Some([res EXCEPT !.generated = texture])
                        /\ panicked' = TRUE
                        /\ last' = [log EXCEPT !.result = "panic"]
                   ELSE IF IsSome(data) /\ AsU32(Unwrap(data)) /= ExpectedLen(width, height)
                   THEN /\ shared_resources' = Some([res EXCEPT !.generated = texture])
                        /\ panicked' = FALSE
                        /\ last' = [log EXCEPT !.result = "InvalidLength"]
                   ELSE /\ shared_resources' =
                               Some([res EXCEPT
                                        !.generated = texture,
                                        !.textures = Append(@, <<texture, width, height>>)])
                        /\ panicked' = FALSE
                        /\ last' = [log EXCEPT !.tex_uploads = 1]

\* res.textures.iter().find(|(id, _, _)| *id == texture)
FindTexture(textures, texture) ==
    LET found == {i \in 1..Len(textures) : textures[i][1] = texture} IN
    IF found = {} THEN None
    ELSE Some(textures[CHOOSE i \in found : \A j \in found : i <= j])

\* The rectangle update_texture writes: sub_rect, or the whole texture with
\* the size the registry holds.
Rect(sub_rect, size) ==
    IF IsSome(sub_rect) THEN Unwrap(sub_rect) ELSE <<<<>>, <<>>, size[2], size[3]>>

\* update_texture(texture, data, sub_rect). The default rectangle is an
\* argument of unwrap_or, so the registry is searched, and the result
\* unwrapped, whether or not sub_rect is given.
UpdateTexture(texture, data, sub_rect, overflow_checks) ==
    /\ Idle
    /\ UNCHANGED sprite_render
    /\ UNCHANGED <<contexts, current_context, major_version, shared_resources,
                   camera, renderer, created>>
    /\ LET log == [Call("update_texture", 0) EXCEPT
                      !.args = <<texture, data, sub_rect>>]
       IN
       IF ~IsSome(shared_resources)
       THEN /\ last' = [log EXCEPT !.result = "RendererContextDontExist"]
            /\ UNCHANGED panicked
       ELSE LET size == FindTexture(Unwrap(shared_resources).textures, texture) IN
            IF ~IsSome(size)
            THEN /\ panicked' = TRUE
                 /\ last' = [log EXCEPT !.result = "panic"]
            ELSE LET rect == Rect(sub_rect, Unwrap(size)) IN
                 IF overflow_checks /\ ExpectedLenOverflows(rect[3], rect[4])
                 THEN /\ panicked' = TRUE
                      /\ last' = [log EXCEPT !.result = "panic"]
                 ELSE IF IsSome(data) /\ Unwrap(data) /= ExpectedLen(rect[3], rect[4])
                 THEN /\ panicked' = FALSE
                      /\ last' = [log EXCEPT !.result = "InvalidLength"]
                 ELSE /\ panicked' = FALSE
                      /\ last' = [log EXCEPT !.tex_uploads = 1]

\* resize_texture(texture, width, height, data): the texture is bound and
\* its storage replaced; res.textures is not written.
ResizeTexture(texture, width, height, data, overflow_checks) ==
    /\ Idle
    /\ UNCHANGED sprite_render
    /\ UNCHANGED <<contexts, current_context, major_version, camera, renderer,
                   created>>
    /\ LET log == [Call("resize_texture", 0) EXCEPT
                      !.args = <<texture, width, height, data>>]
       IN
       IF ~IsSome(shared_resources)
       THEN /\ last' = [log EXCEPT !.result = "RendererContextDontExist"]
            /\ UNCHANGED <<shared_resources, panicked>>
       ELSE IF IsSome(data) /\ overflow_checks /\ ExpectedLenOverflows(width, height)
       THEN /\ panicked' = TRUE
            /\ last' = [log EXCEPT !.result = "panic"]
            /\ UNCHANGED shared_resources
       ELSE IF IsSome(data) /\ AsU32(Unwrap(data)) /= ExpectedLen(width, height)
       THEN /\ panicked' = FALSE
            /\ last' = [log EXCEPT !.result = "InvalidLength"]
            /\ UNCHANGED shared_resources
       ELSE /\ panicked' = FALSE
            /\ last' = [log EXCEPT !.tex_uploads = 1]
            /\ UNCHANGED shared_resources

\* ---------------------------------------------------------------- Next
SpriteSlices == UNION {[1..n -> TextureIds] : n \in 0..MaxSprites}

\* The window multiplexer: every native call may fail.
Next ==
    \/ \E w \in Windows, c, m, n \in BOOLEAN : AddWindow(w, c, m, n)
    \/ \E w \in Windows, n \in BOOLEAN : RemoveWindow(w, n)
    \/ \E w \in Windows, m, n \in BOOLEAN : Render(w, m, n)
    \/ DropRenderer
    \/ \E w \in Windows, m, n \in BOOLEAN : Resize(w, m, n)
    \/ Suspend
    \/ \E w \in Windows, c, m \in BOOLEAN, major \in GlMajorVersions,
          u \in 1..MaxTextureUnits : Resume(w, c, major, u, m)
    \/ \E op \in {"clear_screen", "draw_sprites", "finish"} : NoopRendererCall(op)

Spec == Init /\ [][Next]_vars

\* The draw session on the first window of an OpenGL 3 renderer: frames of
\* every slice, the caller moving its camera and loading textures in between.
InitDraw == Init /\ major_version = 3

NextDraw ==
    \/ \E w \in Windows : Render(w, TRUE, TRUE)
    \/ DropRenderer
    \/ ClearScreen
    \/ \E s \in SpriteSlices : DrawSprites(s)
    \/ \E ok \in BOOLEAN : Finish(ok)
    \/ \E p \in CameraPositions : CameraSetPosition(p[1], p[2])
    \/ \E d \in TextureDims, data \in {None} \cup {Some(l) : l \in DataLens},
          oc \in BOOLEAN : NewTexture(d[1], d[2], data, oc)

SpecDraw == InitDraw /\ [][NextDraw]_vars

\* The texture registry of a single-window application across suspend and
\* resume. Sizes reach 32768 x 32768, whose byte count is 2^32, and data
\* lengths reach past 2^32.
TextureSizes == {<<Num(1), Num(1)>>, <<Num(2), Num(1)>>, <<Num(32768), Num(32768)>>}
PixelDataLens == {Num(0), Num(4), Num(8), <<4, 0, 0, 0, 1>>}
PixelData == {None} \cup {Some(l) : l \in PixelDataLens}
SubRects == {None} \cup {Some(<<Num(0), Num(0), d[1], d[2]>>) : d \in TextureSizes}
\* The batches drawn between texture calls: one sprite of the first texture.
RegistrySlices == {<<1>>}

InitTex ==
    /\ Init
    /\ major_version = 3
    /\ Unwrap(shared_resources).max_texture_units = 1

NextTex ==
    \/ \E d \in TextureSizes, data \in PixelData, oc \in BOOLEAN :
          NewTexture(d[1], d[2], data, oc)
    \/ \E t \in TextureIds, data \in PixelData, r \in SubRects, oc \in BOOLEAN :
          UpdateTexture(t, data, r, oc)
    \/ \E t \in TextureIds, d \in TextureSizes, data \in PixelData, oc \in BOOLEAN :
          ResizeTexture(t, d[1], d[2], data, oc)
    \/ Suspend
    \/ Resume(1, TRUE, 3, 1, TRUE)
    \/ Render(1, TRUE, TRUE)
    \/ DropRenderer
    \/ Resize(1, TRUE, TRUE)
    \/ \E op \in {"clear_screen", "draw_sprites", "finish"} : NoopRendererCall(op)
    \/ \E s \in RegistrySlices : DrawSprites(s)

SpecTex == InitTex /\ [][NextTex]_vars

\* The vertex buffer across windows, sessions, texture loads, suspend and
\* resume: every native call succeeds, batches are of one texture.
BufferSlices == UNION {[1..n -> {1}] : n \in 0..MaxSprites}

NextBuffer ==
    \/ \E w \in Windows : AddWindow(w, TRUE, TRUE, TRUE)
    \/ \E w \in Windows : RemoveWindow(w, TRUE)
    \/ \E w \in Windows : Render(w, TRUE, TRUE)
    \/ DropRenderer
    \/ \E w \in Windows : Resize(w, TRUE, TRUE)
    \/ Suspend
    \/ Resume(1, TRUE, 3, 1, TRUE)
    \/ ClearScreen
    \/ \E s \in BufferSlices : DrawSprites(s)
    \/ Finish(TRUE)
    \/ \E op \in {"clear_screen", "draw_sprites", "finish"} : NoopRendererCall(op)
    \/ \E d \in TextureDims : NewTexture(d[1], d[2], None, TRUE)

SpecBuffer == InitTex /\ [][NextBuffer]_vars

\* ------------------------------------------- GlesSpriteRender (opengles.rs)
\* GlesSpriteRender::set_current_context(window_id): the native calls cannot
\* fail; the two unwraps can.
GlesSetCurrentContext(cs, cur, window_id) ==
    LET already_current == IsSome(cur) /\ Unwrap(cur)[1] = window_id IN
    IF already_current
    THEN [contexts |-> cs, current_context |-> cur, result |-> "ok"]
    ELSE IF window_id \notin DOMAIN cs \/ ~IsSome(cs[window_id])
    THEN [contexts |-> cs, current_context |-> None, result |-> "panic"]
    ELSE LET cs1 == [cs EXCEPT ![window_id] = None]
             next == Some(<<window_id, Unwrap(cs[window_id])>>)
         IN  IF ~IsSome(cur)
             THEN [contexts |-> cs1, current_context |-> next, result |-> "ok"]
             ELSE IF Unwrap(cur)[1] \notin DOMAIN cs1
             THEN [contexts |-> cs1, current_context |-> next, result |-> "panic"]
             ELSE [contexts |-> Demote(cs1, Unwrap(cur)),
                   current_context |-> next, result |-> "ok"]

\* Faulty variant: only windows whose context is stored count as registered.
AlreadyAdded_StoredOnly(cs, window_id) ==
    window_id \in DOMAIN cs /\ IsSome(cs[window_id])

\* self.contexts.contains_key(&window.id())
AlreadyAdded(cs, window_id) == window_id \in DOMAIN cs

\* GlesSpriteRender::add_window(window)
GlesAddWindow(window_id, create_ok) ==
    /\ Idle
    /\ UNCHANGED <<major_version, shared_resources, camera, renderer, sprite_render>>
    /\ IF AlreadyAdded(contexts, window_id)
       THEN /\ last' = [Call("gles::add_window", window_id) EXCEPT !.result = "warned"]
            /\ UNCHANGED <<contexts, current_context, created, panicked>>
       ELSE IF ~IsSome(current_context)
       THEN \* self.current_context.as_ref().unwrap()
            /\ panicked' = TRUE
            /\ last' = [Call("gles::add_window", window_id) EXCEPT !.result = "panic"]
            /\ UNCHANGED <<contexts, current_context, created>>
       ELSE /\ created < MaxContexts
            /\ IF ~create_ok
               THEN \* GlContext::create(window, config).unwrap()
                    /\ panicked' = TRUE
                    /\ last' = [Call("gles::add_window", window_id) EXCEPT
                                   !.result = "panic"]
                    /\ UNCHANGED <<contexts, current_context, created>>
               ELSE LET shared == ShareTarget(current_context)
                        context == ContextNew(created + 1, shared)
                        set == GlesSetCurrentContext(
                                   Insert(contexts, window_id, Some(context)),
                                   current_context, window_id)
                    IN  /\ created' = created + 1
                        /\ contexts' = set.contexts
                        /\ current_context' = set.current_context
                        /\ panicked' = (set.result /= "ok")
                        /\ last' = [Call("gles::add_window", window_id) EXCEPT
                                       !.result = set.result,
                                       !.created_contexts =
                                           <<[id |-> context.id, shared |-> shared,
                                              live |-> LiveContexts(contexts,
                                                                    current_context)]>>]

\* GlesSpriteRender::remove_window(window_id)
GlesRemoveWindow(window_id) ==
    /\ Idle
    /\ UNCHANGED <<major_version, shared_resources, camera, renderer, created,
                   panicked, sprite_render>>
    /\ contexts' = Remove(contexts, window_id)
    /\ current_context' =
           IF IsSome(current_context) /\ Unwrap(current_context)[1] = window_id
           THEN None
           ELSE current_context
    /\ last' = Call("gles::remove_window", window_id)

\* GlesSpriteRender::render(window) and resize(window_id, width, height):
\* both begin with set_current_context; the session render returns is
\* dropped before the next call.
GlesSwitch(op, window_id) ==
    /\ Idle
    /\ UNCHANGED <<major_version, shared_resources, camera, renderer, created,
                   sprite_render>>
    /\ LET set == GlesSetCurrentContext(contexts, current_context, window_id) IN
       /\ contexts' = set.contexts
       /\ current_context' = set.current_context
       /\ panicked' = (set.result /= "ok")
       /\ last' = [Call(op, window_id) EXCEPT !.result = set.result]

GlesRender(window_id) == GlesSwitch("gles::render", window_id)

GlesResize(window_id) == GlesSwitch("gles::resize", window_id)

NextGles ==
    \/ \E w \in Windows, ok \in BOOLEAN : GlesAddWindow(w, ok)
    \/ \E w \in Windows : GlesRemoveWindow(w)
    \/ \E w \in Windows : GlesRender(w)
    \/ \E w \in Windows : GlesResize(w)

\* GlesSpriteRender::new(window) for window 1: the window is a key of contexts
\* with no stored context, its context is the current one, and the buffers
\* and the texture registry are fields of the renderer itself.
InitGles ==
    /\ contexts = Insert(EmptyMap, 1, None)
    /\ current_context = Some(<<1, ContextNew(1, None)>>)
    /\ major_version = 2
    /\ shared_resources = Some(CreateResources(1))
    /\ camera = CameraNew(800, 400, Two)
    /\ renderer = None
    /\ created = 1
    /\ last = [Call("gles::new", 1) EXCEPT
                  !.created_contexts = <<[id |-> 1, shared |-> None, live |-> {}]>>]
    /\ panicked = FALSE
    /\ sprite_render = SpriteRenderNew

SpecGles == InitGles /\ [][NextGles]_vars

\* The caller's camera on its own: created, resized, zoomed, moved, rotated
\* and read in any order.
ScreenSizes == {<<800, 400>>, <<400, 800>>, <<600, 600>>}
ViewExtents == {<<2, 1>>}
Scalars == {<<2, 1>>}
MoveDeltas == {<<<<1, 1>>, <<0, 1>>>>}
\* Angles: just below zero, half a turn and a full turn.
Rotations == {-1, HalfTurn, TwoPi}
Turns == {HalfTurn}

NextCamera ==
    \/ \E z \in ScreenSizes, h \in ViewExtents : CameraCreate(z[1], z[2], h)
    \/ \E z \in ScreenSizes : CameraResize(z[1], z[2])
    \/ \E v \in ViewExtents : CameraSetWidth(v)
    \/ \E v \in ViewExtents : CameraSetHeight(v)
    \/ \E v \in ViewExtents : CameraSetMinorSize(v)
    \/ \E k \in Scalars : CameraScaleView(k)
    \/ \E p \in CameraPositions : CameraSetPosition(p[1], p[2])
    \/ \E d \in MoveDeltas : CameraMoveView(d[1], d[2])
    \/ \E r \in Rotations : CameraSetViewRotation(r)
    \/ \E r \in Turns : CameraRotateView(r)
    \/ CameraViewRead

SpecCamera == InitTex /\ [][NextCamera]_vars

\* ------------------------------------------------------- index buffers
\* The quad pattern [0u16, 1, 2, 1, 2, 3].
QuadPattern == <<0, 1, 2, 1, 2, 3>>

\* Desktop backend: the range bound (new_size * 6) as u32, the number of
\* indices collected.
IndicesLen(new_size) == new_size * 6

\* Desktop backend: the element the map closure yields for x,
\* (x / 6 * 4) as u16 + [0, 1, 2, 1, 2, 3][x % 6]. The cast keeps the low 16
\* bits; the sum stays below 2^16 because the cast leaves a multiple of 4.
Indice(x) == (((x \div 6) * 4) % U16) + QuadPattern[(x % 6) + 1]

\* GLES and WebGL backends: the range bound
\* (new_size * 6 * mem::size_of::<u16>()) as u16.
GlesIndicesLen(new_size) == (new_size * 6 * 2) % U16

\* GLES and WebGL backends: the element for x: u16, x / 6 * 4 + pattern.
GlesIndice(x) == (x \div 6) * 4 + QuadPattern[(x % 6) + 1]

\* Slice lengths that make the buffer grow, up to MaxSizeNeed sprites.
SizesNeeded == {1, 3, 5, 9, 5462, 8193, MaxSizeNeed - 1, MaxSizeNeed}
\* The sprites whose indices a draw is watched fetching.
WatchedSprites == {0, 1, 2, 3, 8191, 16383, 16384, 32767}

\* draw_sprites of size_need sprites finds the buffer too small and calls
\* reallocate_vertex_buffer(size_need).
GrowVertexBuffer(size_need) ==
    /\ Idle
    /\ UNCHANGED sprite_render
    /\ IsSome(shared_resources)
    /\ NeedsReallocation(size_need, Unwrap(shared_resources).buffer_size)
    /\ LET res == ReallocateVertexBuffer(Unwrap(shared_resources), size_need) IN
       /\ shared_resources' = Some(res)
       /\ last' = [Call("reallocate_vertex_buffer", 0) EXCEPT
                      !.realloc = <<res.buffer_size>>,
                      !.args = <<IndicesLen(res.buffer_size)>>]
    /\ UNCHANGED <<contexts, current_context, major_version, camera, renderer,
                   created, panicked>>

\* DrawElements reads element x of the index buffer filled by the last
\* reallocation.
FetchIndice(x) ==
    /\ Idle
    /\ UNCHANGED sprite_render
    /\ IsSome(shared_resources)
    /\ x < IndicesLen(Unwrap(shared_resources).buffer_size)
    /\ last' = [Call("DrawElements", 0) EXCEPT !.args = <<x, Indice(x)>>]
    /\ UNCHANGED <<contexts, current_context, major_version, shared_resources,
                   camera, renderer, created, panicked>>

\* GLES and WebGL backends: reallocate_instance_buffer(size_need). The log
\* holds the new buffer_size, the number of indices collected, and the first
\* and last of them.
GlesReallocateInstanceBuffer(size_need) ==
    /\ Idle
    /\ UNCHANGED sprite_render
    /\ LET new_size == NextPowerOfTwo(size_need)
           len == GlesIndicesLen(new_size)
       IN  last' = [Call("reallocate_instance_buffer", 0) EXCEPT
                       !.realloc = <<new_size>>,
                       !.args = <<size_need, len>>
                                \o (IF len = 0 THEN <<>>
                                    ELSE <<GlesIndice(0), GlesIndice(len - 1)>>)]
    /\ UNCHANGED <<contexts, current_context, major_version, shared_resources,
                   camera, renderer, created, panicked>>

NextIndices ==
    \/ \E n \in SizesNeeded : GrowVertexBuffer(n)
    \/ \E i \in WatchedSprites, k \in 0..5 : FetchIndice(6 * i + k)
    \/ \E n \in SizesNeeded : GlesReallocateInstanceBuffer(n)

SpecIndices == InitTex /\ [][NextIndices]_vars

\* ----------------------------------------- SpriteRender::draw (lib.rs)
MappedDrawCall(op, next) ==
    /\ ~panicked
    /\ sprite_render' = next
    /\ last' = [Call(op, 0) EXCEPT !.sprites = next.sprites]
    /\ UNCHANGED <<contexts, current_context, major_version, shared_resources,
                   camera, renderer, created, panicked>>

\* draw(camera, sprites) up to the loop: the buffer grows when the slice does
\* not fit; an empty slice only clears the screen.
MappedDrawBegin(sprites) ==
    /\ sprite_render.pc = "idle"
    /\ LET n == Len(sprites)
           size == IF n > sprite_render.instance_buffer_size
                   THEN NextPowerOfTwo(n)
                   ELSE sprite_render.instance_buffer_size
       IN  MappedDrawCall("draw",
               [sprite_render EXCEPT !.instance_buffer_size = size,
                                     !.sprites = sprites,
                                     !.mapped = None,
                                     !.write_end = 0,
                                     !.pc = IF n = 0 THEN "swap" ELSE "map"])

\* MapBufferRange(ARRAY_BUFFER, 0, sprites.len() * size_of::<SpriteInstance>(),
\* MAP_WRITE_BIT); a failed call returns a null pointer.
MappedDrawMap(map_ok) ==
    /\ sprite_render.pc = "map"
    /\ MappedDrawCall("MapBufferRange",
           [sprite_render EXCEPT
               !.mapped = IF map_ok
                          THEN Some(Len(sprite_render.sprites) * SizeOfSpriteInstance)
                          ELSE None,
               !.pc = "write"])

\* The for loop: every sprite's texture gets its unit and its record is
\* copied to the cursor, which advances by INSTANCE_STRIDE. Writing through
\* a null cursor is undefined: the process crashes or the writes are lost.
MappedDrawWrite(crash) ==
    /\ sprite_render.pc = "write"
    /\ crash => ~IsSome(sprite_render.mapped)
    /\ IF crash
       THEN /\ ~panicked
            /\ panicked' = TRUE
            /\ last' = [Call("write", 0) EXCEPT !.result = "panic"]
            /\ UNCHANGED <<contexts, current_context, major_version,
                           shared_resources, camera, renderer, created,
                           sprite_render>>
       ELSE LET n == Len(sprite_render.sprites) IN
            MappedDrawCall("write",
               [sprite_render EXCEPT
                   !.texture_unit_map = BindUnits(sprite_render.sprites, 1, @),
                   !.write_end = IF IsSome(sprite_render.mapped)
                                 THEN (n - 1) * INSTANCE_STRIDE + SizeOfSpriteInstance
                                 ELSE 0,
                   !.pc = "unmap"])

\* UnmapBuffer and the test that ends the loop; nothing is mapped after it.
\* UnmapBuffer of a buffer that is not mapped returns FALSE.
MappedDrawUnmap(unmapped, pending) ==
    /\ sprite_render.pc = "unmap"
    /\ unmapped => IsSome(sprite_render.mapped)
    /\ MappedDrawCall("UnmapBuffer",
           [sprite_render EXCEPT
               !.mapped = None,
               !.pc = IF LeavesLoop(unmapped, pending) THEN "render" ELSE "map"])

\* The rest of draw: the uniforms, DrawArraysInstanced and
\* swap_buffers().unwrap().
MappedDrawSwap(swap_ok) ==
    /\ sprite_render.pc \in {"render", "swap"}
    /\ IF swap_ok
       THEN MappedDrawCall("swap_buffers", [sprite_render EXCEPT !.pc = "idle"])
       ELSE /\ ~panicked
            /\ panicked' = TRUE
            /\ last' = [Call("swap_buffers", 0) EXCEPT !.result = "panic"]
            /\ UNCHANGED <<contexts, current_context, major_version,
                           shared_resources, camera, renderer, created,
                           sprite_render>>

NextMapped ==
    \/ \E s \in SpriteSlices : MappedDrawBegin(s)
    \/ \E ok \in BOOLEAN : MappedDrawMap(ok)
    \/ \E crash \in BOOLEAN : MappedDrawWrite(crash)
    \/ \E unmapped, pending \in BOOLEAN : MappedDrawUnmap(unmapped, pending)
    \/ \E ok \in BOOLEAN : MappedDrawSwap(ok)

\* The thread that runs draw keeps running: some step is always taken while
\* one is possible. What the driver answers is not constrained.
SpecMapped == InitTex /\ [][NextMapped]_vars /\ WF_vars(NextMapped)

\* =====================================================================
\* Properties
\* =====================================================================
Resources == Unwrap(shared_resources)
TextureUnitMap == Resources.texture_unit_map

\* The last handler was a draw_sprites call on the GL session.
Drew == last.op = "draw_sprites"
DrewOk == Drew /\ last.result = "ok"

\* The distinct textures of a slice, and their number.
Textures(sprites) == {sprites[i] : i \in 1..Len(sprites)}
K(sprites) == Cardinality(Textures(sprites))

\* The index at which a texture first occurs in a slice.
FirstIndex(sprites, t) ==
    CHOOSE i \in 1..Len(sprites) :
        sprites[i] = t /\ \A j \in 1..(i - 1) : sprites[j] /= t

\* The number of distinct textures among the first i sprites.
DistinctUpTo(sprites, i) == Cardinality({sprites[j] : j \in 1..i})

\* The unit written into the vertices of sprite i, if all four agree.
UnitsOf(data, i) == {data[k].texture : k \in {x \in 1..Len(data) : data[x].sprite = i}}

IsPowerOfTwo(p) == \E k \in 0..16 : p = 2 ^ k

\* ---------------------------------------------------------------- C1
\* C1 (as claimed): in every state reached by calls that returned, no window
\* is in two states at once. The window of
\* current_context never also has a NotCurrent context stored as Some in the
\* contexts map, and at most one context is PossiblyCurrent.
C1_NoWindowInTwoStates ==
    ~panicked =>
        /\ Len(current_context) <= 1
        /\ IsSome(current_context) =>
               LET w == Unwrap(current_context)[1] IN
               ~(w \in DOMAIN contexts /\ IsSome(contexts[w]))

\* ---------------------------------------------------------------- C2
\* C2: after a non-empty draw_sprites call that completes, the texture-unit
\* map is a one-to-one map from the distinct textures of the slice into
\* [0, max_texture_units); two sprites carry the same unit exactly when they
\* carry the same TextureId; and the unit in each of a sprite's four vertices
\* is the unit its texture was bound to in that call.
C2_UnitAssignmentOneToOne ==
    (DrewOk /\ last.sprites /= <<>>) =>
        LET sprites == last.sprites
            map == TextureUnitMap
            n == Len(sprites)
        IN  /\ DOMAIN map = Textures(sprites)
            /\ \A t \in DOMAIN map : map[t] \in 0..(Resources.max_texture_units - 1)
            /\ \A t, u \in DOMAIN map : map[t] = map[u] => t = u
            /\ Len(last.data) = 4 * n
            /\ \A i \in 1..n :
                   /\ Cardinality({k \in 1..Len(last.data) : last.data[k].sprite = i}) = 4
                   /\ \E b \in 1..Len(last.binds) :
                          /\ last.binds[b].texture = sprites[i]
                          /\ UnitsOf(last.data, i) = {last.binds[b].unit}
            /\ \A i, j \in 1..n :
                   (UnitsOf(last.data, i) = UnitsOf(last.data, j)) <=> (sprites[i] = sprites[j])

C2_Witness ==
    /\ DrewOk
    /\ Len(last.sprites) = 3
    /\ K(last.sprites) = 2
    /\ last.sprites[1] = last.sprites[3]

\* ---------------------------------------------------------------- C3
\* C3: a draw of N >= 1 sprites with K <= max_texture_units distinct textures
\* (K = max_texture_units included) completes and binds exactly K textures,
\* each distinct texture once, in the order of their first occurrence,
\* whatever draws preceded it.
C3_ExactlyKBinds ==
    (Drew /\ last.sprites /= <<>>
          /\ K(last.sprites) <= Resources.max_texture_units) =>
        /\ last.result = "ok"
        /\ Len(last.binds) = K(last.sprites)
        /\ \A t \in Textures(last.sprites) :
               last.binds[DistinctUpTo(last.sprites, FirstIndex(last.sprites, t))].texture = t

C3_Witness ==
    /\ DrewOk
    /\ Len(last.sprites) = 3
    /\ K(last.sprites) = Resources.max_texture_units
    /\ Len(last.binds) = 2
    /\ last.realloc = <<>>

\* ---------------------------------------------------------------- C4
\* C4: a draw whose slice has more than max_texture_units distinct textures
\* panics at the first sprite carrying the (max_texture_units+1)-th distinct
\* texture, with no vertex data uploaded and no draw command issued; and a
\* draw that completes wrote four vertices for every sprite of the slice, so
\* none was dropped.
C4_OverflowPanics ==
    (Drew /\ last.sprites /= <<>>) =>
        LET sprites == last.sprites
            max == Resources.max_texture_units
        IN  /\ K(sprites) > max =>
                   /\ last.result = "panic"
                   /\ panicked
                   /\ last.panic_at \in 1..Len(sprites)
                   /\ DistinctUpTo(sprites, last.panic_at) = max + 1
                   /\ DistinctUpTo(sprites, last.panic_at - 1) = max
                   /\ last.uploads = <<>>
                   /\ last.draws = <<>>
            /\ last.result = "ok" =>
                   /\ K(sprites) <= max
                   /\ \A i \in 1..Len(sprites) :
                          UnitsOf(last.data, i) = {TextureUnitMap[sprites[i]]}

C4_Witness ==
    /\ Drew
    /\ last.result = "panic"
    /\ Resources.max_texture_units = 2
    /\ last.panic_at = 3
    /\ Len(last.binds) = 2

\* ---------------------------------------------------------------- C5
\* C5 (as claimed): when a draw_sprites call returns, the map holds exactly
\* the distinct textures of that call's slice, and is empty after a call with
\* an empty slice.
C5_MapIsThisCallsTextures ==
    DrewOk => DOMAIN TextureUnitMap = Textures(last.sprites)

\* C5 (amended): a draw_sprites call with a non-empty slice clears the map
\* before it assigns units, so when it returns the map holds exactly the
\* distinct textures of its slice, whatever calls preceded it; a call with an
\* empty slice returns before the clear and leaves the map as it was.
C5_NonEmptyDrawRebuildsMap ==
    [][(last'.op = "draw_sprites" /\ last'.result = "ok") =>
          IF last'.sprites = <<>>
          THEN /\ ~last'.cleared
               /\ Unwrap(shared_resources').texture_unit_map = TextureUnitMap
          ELSE /\ last'.cleared
               /\ DOMAIN Unwrap(shared_resources').texture_unit_map
                      = Textures(last'.sprites)]_vars

C5_Witness ==
    /\ DrewOk
    /\ last.sprites = <<>>
    /\ DOMAIN TextureUnitMap /= {}

\* ---------------------------------------------------------------- C6
\* C6: draw_sprites with n sprites reallocates the vertex buffer exactly when
\* n > buffer_size; after a reallocation buffer_size is the smallest power of
\* two >= n; when n <= buffer_size nothing is reallocated and buffer_size is
\* unchanged.
C6_ReallocatesIffTooSmall ==
    [][last'.op = "draw_sprites" =>
          LET n == Len(last'.sprites)
              before == Resources.buffer_size
              after == Unwrap(shared_resources').buffer_size
          IN  /\ (last'.realloc /= <<>>) <=> (n > before)
              /\ n > before =>
                     /\ last'.realloc = <<after>>
                     /\ IsPowerOfTwo(after)
                     /\ after >= n
                     /\ after < 2 * n
              /\ n <= before => after = before]_vars

C6_Witness ==
    /\ DrewOk
    /\ Len(last.sprites) = 3
    /\ Resources.buffer_size = 4
    /\ last.realloc = <<>>

\* ---------------------------------------------------------------- C7
\* C7: draw_sprites with an empty slice does nothing: no draw command, no
\* buffer upload, no reallocation, no bind, and buffer_size, the registry, the
\* context map, the current context and the camera with its dirty flag are
\* as before.
C7_EmptyDrawIsNoop ==
    [][(last'.op = "draw_sprites" /\ last'.sprites = <<>>) =>
          /\ last'.draws = <<>>
          /\ last'.uploads = <<>>
          /\ last'.realloc = <<>>
          /\ last'.binds = <<>>
          /\ last'.uniform_count = <<>>
          /\ last'.result = "ok"
          /\ UNCHANGED <<shared_resources, contexts, current_context, camera,
                         panicked>>]_vars

C7_Witness ==
    /\ DrewOk
    /\ last.sprites = <<>>
    /\ camera.dirty
    /\ camera.view_matrix /= Identity
    /\ Resources.textures /= <<>>
    /\ Resources.buffer_size > 0

\* ---------------------------------------------------------------- C8
\* C8: a draw_sprites call with n >= 1 sprites that completes issues exactly
\* one draw command, of 6*n indices, after one upload of 4*n vertices; one
\* sprite drawn on a fresh renderer (buffer_size 0) makes one texture bind,
\* one draw of 6 indices and leaves buffer_size = 1.
C8_OneDrawOfSixIndicesPerSprite ==
    [][(last'.op = "draw_sprites" /\ last'.result = "ok" /\ last'.sprites /= <<>>) =>
          LET n == Len(last'.sprites) IN
          /\ last'.draws = <<6 * n>>
          /\ last'.uploads = <<4 * n * SPRITE_VERTEX_STRIDE>>
          /\ (n = 1 /\ Resources.buffer_size = 0) =>
                 /\ Len(last'.binds) = 1
                 /\ last'.draws = <<6>>
                 /\ Unwrap(shared_resources').buffer_size = 1]_vars

C8_Witness ==
    /\ DrewOk
    /\ Len(last.sprites) = 1
    /\ last.realloc = <<1>>
    /\ last.draws = <<6>>

\* ---------------------------------------------------------------- C9
\* C9 (as claimed): add_window(w) on a renderer that has a current context
\* stores w's new context as NotCurrent and leaves the previously current
\* window current.
C9_AddWindowKeepsCurrent ==
    [][(last'.op = "add_window" /\ last'.result = "ok" /\ IsSome(current_context)) =>
          /\ Unwrap(current_context')[1] = Unwrap(current_context)[1]
          /\ IsSome(contexts'[last'.window])]_vars

\* C9 (amended): add_window(w), when it returns, leaves w the current window.
\* When another window p was current, w's new context is the current one, w's
\* slot in the map is empty and p's context is stored in the map as
\* NotCurrent. This holds whether or not w's is the only context.
C9_AddWindowMakesCurrent ==
    [][(last'.op = "add_window" /\ last'.result = "ok") =>
          LET w == last'.window
              new == last'.created_contexts[1].id
          IN  /\ IsSome(current_context')
              /\ Unwrap(current_context')[1] = w
              /\ (IsSome(current_context) /\ Unwrap(current_context)[1] /= w) =>
                     LET p == Unwrap(current_context)[1] IN
                     /\ Unwrap(current_context')[2].id = new
                     /\ contexts'[w] = None
                     /\ IsSome(contexts'[p])
                     /\ Unwrap(contexts'[p]) = Unwrap(current_context)[2]]_vars

C9_Witness ==
    /\ last.op = "add_window"
    /\ last.result = "ok"
    /\ Unwrap(current_context)[1] = last.window
    /\ \E p \in DOMAIN contexts : p /= last.window /\ IsSome(contexts[p])

\* --------------------------------------------------------------- C10
\* C10 (as claimed): the context created by an add_window call that returns
\* is created with sharing against a live context of the renderer whenever a
\* context that is still alive after the call was alive when it was created.
C10_SharedWheneverLive ==
    (last.op = "add_window" /\ last.result = "ok") =>
        LET c == last.created_contexts[1] IN
        (c.live \cap LiveContexts(contexts, current_context) /= {})
            => (IsSome(c.shared) /\ Unwrap(c.shared) \in c.live)

\* --------------------------------------------------------------- C11
\* The contexts held for a window: the one stored in the map and the current
\* one, each as <<place, context>>.
HeldFor(cs, cur, w) ==
    (IF w \in DOMAIN cs /\ IsSome(cs[w]) THEN {<<"map", Unwrap(cs[w])>>} ELSE {})
        \cup (IF IsSome(cur) /\ Unwrap(cur)[1] = w
              THEN {<<"current", Unwrap(cur)[2]>>} ELSE {})

\* The position of a native call in the log, 0 when it was not issued.
PositionOf(calls, call) ==
    IF \E i \in 1..Len(calls) : calls[i] = call
    THEN CHOOSE i \in 1..Len(calls) : calls[i] = call
    ELSE 0

\* C11: after remove_window(w) returns, w is neither a key of the contexts map
\* nor the current window; if w was current its context was made not-current
\* before it was dropped and current_context is empty; every other window's
\* stored context is unchanged; and for an id that is neither a key nor
\* current nothing changes and no native call is issued.
C11_RemoveWindowFrame ==
    [][(last'.op = "remove_window" /\ last'.result = "ok") =>
          LET w == last'.window
              was_current == IsSome(current_context) /\ Unwrap(current_context)[1] = w
          IN  /\ w \notin DOMAIN contexts'
              /\ ~(IsSome(current_context') /\ Unwrap(current_context')[1] = w)
              /\ was_current =>
                     LET id == Unwrap(current_context)[2].id
                         released == PositionOf(last'.native, <<"make_not_current", id>>)
                         dropped == PositionOf(last'.native, <<"drop", id>>)
                     IN  /\ current_context' = None
                         /\ released > 0
                         /\ dropped > released
              /\ ~was_current => current_context' = current_context
              /\ \A x \in Windows \ {w} :
                     HeldFor(contexts', current_context', x)
                         = HeldFor(contexts, current_context, x)
              /\ DOMAIN contexts' = DOMAIN contexts \ {w}
              /\ (w \notin DOMAIN contexts /\ ~was_current) =>
                     /\ last'.native = <<>>
                     /\ UNCHANGED <<contexts, current_context, major_version,
                                    shared_resources, camera, renderer, created,
                                    panicked>>
              /\ UNCHANGED <<shared_resources, major_version, created>>]_vars

\* remove_window of the current window while another window is registered,
\* and remove_window of an id that is not registered.
C11_Witness ==
    /\ last.op = "remove_window"
    /\ last.result = "ok"
    /\ Len(last.native) = 2
    /\ current_context = None
    /\ \E x \in DOMAIN contexts : IsSome(contexts[x])

\* --------------------------------------------------------------- C12
\* C12: after suspend(), from any state, the renderer holds no context (the
\* contexts map is empty and there is no current context) and no shared
\* resources.
C12_SuspendDropsEverything ==
    last.op = "suspend" =>
        /\ DOMAIN contexts = {}
        /\ current_context = None
        /\ LiveContexts(contexts, current_context) = {}
        /\ shared_resources = None
        /\ major_version = 0

\* suspend() of a renderer for which a second context had been created.
C12_Witness ==
    /\ last.op = "suspend"
    /\ created = 2
    /\ ~panicked

\* --------------------------------------------------------------- C13
TextureOps == {"new_texture", "update_texture", "resize_texture"}

\* C13: between suspend() and the next resume() (no shared resources),
\* new_texture, update_texture and resize_texture return
\* RendererContextDontExist for every argument, render returns a no-op
\* session, resize does nothing, and none of these calls changes the
\* renderer's state, reaches the graphics API or panics.
C13_SuspendedCallsAreInert ==
    [][(~IsSome(shared_resources)
            /\ last'.op \in TextureOps \cup {"render", "resize"}) =>
          /\ last'.op \in TextureOps => last'.result = "RendererContextDontExist"
          /\ last'.op = "render" => renderer' = Some("noop")
          /\ last'.op /= "render" => renderer' = renderer
          /\ last'.gen_textures = 0
          /\ last'.tex_uploads = 0
          /\ last'.native = <<>>
          /\ ~panicked'
          /\ UNCHANGED <<contexts, current_context, major_version,
                         shared_resources, camera, created>>]_vars

\* new_texture with pixel data of the wrong length on a suspended renderer.
C13_Witness ==
    /\ ~IsSome(shared_resources)
    /\ last.op = "new_texture"
    /\ last.result = "RendererContextDontExist"
    /\ IsSome(last.args[3])
    /\ Unwrap(last.args[3]) /= Times(Times(last.args[1], last.args[2]), Num(4))

\* --------------------------------------------------------------- C14
\* C14: after a successful resume(w) on a suspended renderer the state is that
\* of a freshly constructed renderer for w: w is the only registered window
\* and is current, in a context that shares with none and has a new
\* vertex-array object; buffer_size is 0, the registry is empty (so no texture
\* id created before the suspend is in it) and the texture-unit mapping is
\* empty.
C14_ResumeIsFresh ==
    [][(last'.op = "resume" /\ last'.result = "ok" /\ ~IsSome(shared_resources)) =>
          LET w == last'.window
              res == Unwrap(shared_resources')
              cur == Unwrap(current_context')
          IN  /\ DOMAIN contexts' = {w}
              /\ contexts'[w] = None
              /\ IsSome(current_context')
              /\ cur[1] = w
              /\ cur[2].id = created'
              /\ cur[2].id \notin 1..created
              /\ cur[2].shared = None
              /\ cur[2].vao = CreateVao(ContextNew(created', None), major_version')
              /\ IsSome(shared_resources')
              /\ res.buffer_size = 0
              /\ res.textures = <<>>
              /\ \A t \in TextureIds : FindTexture(res.textures, t) = None
              /\ DOMAIN res.texture_unit_map = {}
              /\ res.generated = 0]_vars

\* A resumed renderer.
C14_Witness ==
    /\ last.op = "resume"
    /\ last.result = "ok"
    /\ created > 1
    /\ IsSome(shared_resources)
    /\ Unwrap(current_context)[1] = last.window

\* --------------------------------------------------------------- C15
\* C15 (as claimed): in every state reached by calls that returned, the shared
\* resources exist only if at least one context is alive (a current context
\* or a NotCurrent context in the map).
C15_ResourcesOnlyWithContext ==
    (~panicked /\ IsSome(shared_resources)) =>
        LiveContexts(contexts, current_context) /= {}

\* --------------------------------------------------------------- C16
\* The context a window is rendered with: the current one when the window is
\* current, the one stored for it in the map otherwise.
RenderingContext(cs, cur, w) ==
    IF IsSome(cur) /\ Unwrap(cur)[1] = w THEN Some(Unwrap(cur)[2])
    ELSE IF w \in DOMAIN cs THEN cs[w]
    ELSE None

\* C16: a render or resize call that returns creates no context, leaves the
\* window it names current in the context, with the vertex-array object, that
\* the window had before the call, and leaves every other window the context
\* and vertex-array object it had: switching moves contexts between the map
\* and current_context without creating, replacing or dropping a window's
\* vertex-array object.
C16_SwitchKeepsVao ==
    [][(last'.op \in {"render", "resize"} /\ last'.result = "ok"
            /\ IsSome(shared_resources)) =>
          /\ created' = created
          /\ current_context' =
                 Some(<<last'.window,
                        Unwrap(RenderingContext(contexts, current_context, last'.window))>>)
          /\ \A w \in Windows :
                 RenderingContext(contexts', current_context', w)
                     = RenderingContext(contexts, current_context, w)]_vars

\* A render or resize that switched to a window with a vertex-array object
\* while another window, also with one, went back into the map.
C16_Witness ==
    /\ last.op \in {"render", "resize"}
    /\ last.result = "ok"
    /\ IsSome(current_context)
    /\ Unwrap(current_context)[1] = 1
    /\ IsSome(Unwrap(current_context)[2].vao)
    /\ 2 \in DOMAIN contexts
    /\ IsSome(contexts[2])
    /\ IsSome(Unwrap(contexts[2]).vao)

\* --------------------------------------------------------------- C17
\* The exact number of bytes of a width x height RGBA texture, and whether
\* pixel data was supplied whose length differs from it.
ExactLen(width, height) == Times(Times(width, height), Num(4))
WrongLength(data, width, height) ==
    IsSome(data) /\ Unwrap(data) /= ExactLen(width, height)

\* The fields of SharedResources (the counter of generated texture names
\* belongs to the graphics API).
Fields(res) ==
    IF IsSome(res)
    THEN LET r == Unwrap(res) IN
         Some(<<r.buffer_size, r.textures, r.texture_unit_map, r.max_texture_units>>)
    ELSE None

\* C17 (as claimed): new_texture, called while shared resources exist,
\* returns InvalidLength exactly when pixel data is supplied and its length
\* differs from width*height*4; in every other case it succeeds, returns the
\* new TextureId and appends exactly one entry (id, width, height) to the
\* registry.
C17_NewTextureChecksLength ==
    [][(last'.op = "new_texture" /\ IsSome(shared_resources)) =>
          LET width == last'.args[1]
              height == last'.args[2]
              data == last'.args[3]
              wrong == WrongLength(data, width, height)
              before == Unwrap(shared_resources).textures
              after == Unwrap(shared_resources').textures
          IN  /\ (last'.result = "InvalidLength") <=> wrong
              /\ ~wrong =>
                     /\ last'.result = "ok"
                     /\ Len(after) = Len(before) + 1
                     /\ SubSeq(after, 1, Len(before)) = before
                     /\ after[Len(after)][2] = width
                     /\ after[Len(after)][3] = height
                     /\ FindTexture(before, after[Len(after)][1]) = None]_vars

\* --------------------------------------------------------------- C18
\* C18 (as claimed): update_texture on a registered texture returns
\* InvalidLength exactly when data is supplied whose length differs from
\* w*h*4 for the rectangle it writes: the explicit sub_rect [x, y, w, h], or
\* [0, 0, W, H] for the (W, H) the registry stores when sub_rect is omitted.
C18_UpdateTextureChecksRect ==
    [][(last'.op = "update_texture" /\ IsSome(shared_resources)
            /\ IsSome(FindTexture(Unwrap(shared_resources).textures, last'.args[1]))) =>
          LET size == Unwrap(FindTexture(Unwrap(shared_resources).textures, last'.args[1]))
              data == last'.args[2]
              sub_rect == last'.args[3]
              w == IF IsSome(sub_rect) THEN Unwrap(sub_rect)[3] ELSE size[2]
              h == IF IsSome(sub_rect) THEN Unwrap(sub_rect)[4] ELSE size[3]
          IN  /\ (last'.result = "InvalidLength") <=> WrongLength(data, w, h)
              /\ ~WrongLength(data, w, h) => last'.result = "ok"]_vars

\* --------------------------------------------------------------- C19
\* C19 (as claimed): whenever new_texture, update_texture or resize_texture
\* returns InvalidLength, the renderer's state is as before the call and
\* neither a pixel upload nor a texture-object creation was issued.
C19_InvalidLengthLeavesNoTrace ==
    [][(last'.op \in TextureOps /\ last'.result = "InvalidLength") =>
          /\ Fields(shared_resources') = Fields(shared_resources)
          /\ UNCHANGED <<contexts, current_context, major_version, camera,
                         renderer, created, panicked>>
          /\ last'.tex_uploads = 0
          /\ last'.gen_textures = 0]_vars

\* --------------------------------------------------------------- C20
\* C20 (as claimed): after a successful resize_texture(id, w2, h2, data) of a
\* registered texture, the registry entry of id holds (w2, h2).
C20_ResizeUpdatesRegistry ==
    (last.op = "resize_texture" /\ last.result = "ok"
        /\ IsSome(FindTexture(Resources.textures, last.args[1]))) =>
        LET size == Unwrap(FindTexture(Resources.textures, last.args[1])) IN
        /\ size[2] = last.args[2]
        /\ size[3] = last.args[3]

\* --------------------------------------------------------------- C21
\* C21: the camera's view extent always has the screen's aspect ratio: after
\* Camera::new and after any sequence of resize, set_width, set_height,
\* set_minor_size and scale_view calls, width * screen_height equals
\* height * screen_width in exact arithmetic; new(800, 400, 2.0) has width 4.
C21_ExtentHasScreenRatio ==
    /\ Mul(camera.width, AsF32(camera.screen_size[2]))
           = Mul(camera.height, AsF32(camera.screen_size[1]))
    /\ (last.op = "Camera::new" /\ last.args = <<800, 400, Two>>) =>
           camera.width = <<4, 1>>

\* A zoom on a tall screen after the screen was resized.
C21_Witness ==
    /\ last.op = "Camera::scale_view"
    /\ camera.screen_size = <<400, 800>>
    /\ camera.width = <<2, 1>>
    /\ camera.height = <<4, 1>>

\* --------------------------------------------------------------- C22
\* C22: Camera::resize preserves the smaller view dimension: min(width,
\* height) after the call equals min(width, height) before it, and the
\* preserved value is the height when the new screen is wider than tall and
\* the width otherwise.
C22_ResizeKeepsSmallerSide ==
    [][last'.op = "Camera::resize" =>
          LET before == Min(camera.width, camera.height)
              after == Min(camera'.width, camera'.height)
              screen_width == last'.args[1]
              screen_height == last'.args[2]
          IN  /\ after = before
              /\ camera'.screen_size = <<screen_width, screen_height>>
              /\ screen_width > screen_height => camera'.height = before
              /\ screen_width <= screen_height => camera'.width = before]_vars

\* A resize from a wide screen to a tall one: the smaller side, the height
\* before, is the width after.
C22_Witness ==
    /\ last.op = "Camera::resize"
    /\ last.args = <<400, 800>>
    /\ camera.width = <<2, 1>>
    /\ camera.height = <<4, 1>>

\* --------------------------------------------------------------- C23
\* C23 (as claimed): after set_view_rotation(r) and after rotate_view(r), for
\* every input and every prior rotation, the stored rotation lies in
\* [0, 2*pi), 2*pi excluded.
C23_RotationBelowFullTurn ==
    (last.op \in {"Camera::set_view_rotation", "Camera::rotate_view"}) =>
        /\ camera.rotation >= 0
        /\ camera.rotation < TwoPi

\* --------------------------------------------------------------- C24
\* The clip-space point the vertex shader computes from a world point:
\* vec3(position, 1.0) * view, for a matrix of constant entries.
Clip(matrix, px, py) ==
    LET e(i) == matrix.m[i][1] IN
    <<Add(Add(Mul(e(1), px), Mul(e(2), py)), e(3)),
      Add(Add(Mul(e(4), px), Mul(e(5), py)), e(6))>>

\* C24: for a camera with rotation 0, at any position and size, the matrix
\* view() returns maps the world point (x, y) to clip-space (0, 0), the point
\* (x + width/2, y) to clip x = 1 and the point (x, y + height/2) to clip
\* y = 1.
C24_ViewMapsCentreToOrigin ==
    (last.op = "Camera::view" /\ camera.rotation = 0) =>
        LET m == camera.view_matrix
            half_width == Div(camera.width, Two)
            half_height == Div(camera.height, Two)
        IN  /\ \A i \in 1..9 : m.m[i][2] = Zero /\ m.m[i][3] = Zero
            /\ Clip(m, camera.x, camera.y) = <<Zero, Zero>>
            /\ Clip(m, Add(camera.x, half_width), camera.y) = <<One, Zero>>
            /\ Clip(m, camera.x, Add(camera.y, half_height)) = <<Zero, One>>

\* view() of an unrotated camera away from the origin whose extent is not
\* square.
C24_Witness ==
    /\ last.op = "Camera::view"
    /\ camera.rotation = 0
    /\ camera.x = <<1, 1>>
    /\ camera.y = <<2, 1>>
    /\ camera.width = <<1, 1>>
    /\ camera.height = <<2, 1>>

\* --------------------------------------------------------------- C30
\* The calls that change a field the view matrix is computed from.
CameraMutators ==
    {"set_position", "Camera::move_view", "Camera::set_width",
     "Camera::set_height", "Camera::set_minor_size", "Camera::resize",
     "Camera::scale_view", "Camera::set_view_rotation", "Camera::rotate_view"}

\* C30: the cached view matrix is never stale when read: every mutator sets
\* the dirty flag, view() recomputes only when the flag is set and then
\* clears it, so whenever the flag is clear the cached matrix equals the
\* matrix computed from the current fields, and a view() call with the flag
\* clear returns the same matrix without recomputing.
C30_CachedViewIsFresh ==
    [][/\ last'.op \in CameraMutators => camera'.dirty
       /\ last'.op = "Camera::view" =>
             /\ ~camera'.dirty
             /\ last'.args = <<camera.dirty>>
             /\ ~camera.dirty => camera' = camera
       /\ ~camera'.dirty => camera'.view_matrix = ViewMatrix(camera')]_vars

\* A second view() with no mutator in between: nothing was recomputed and the
\* matrix is the one of a moved, rotated camera.
C30_Witness ==
    /\ last.op = "Camera::view"
    /\ last.args = <<FALSE>>
    /\ camera.rotation = HalfTurn
    /\ camera.x = <<1, 1>>
    /\ camera.view_matrix = ViewMatrix(camera)

\* --------------------------------------------------------------- C26
\* C26: within one draw_sprites call the texture units are handed out
\* consecutively from 0 in the order the textures first appear in the slice:
\* the b-th texture bound is bound to unit b - 1 (also in a call that stops at
\* the unit limit), and in a call that completes with K distinct textures the
\* units handed out and written into the vertices are exactly 0 .. K-1, the
\* i-th distinct texture holding unit i - 1.
C26_UnitsConsecutiveFromZero ==
    Drew =>
        /\ \A b \in 1..Len(last.binds) : last.binds[b].unit = b - 1
        /\ last.result = "ok" =>
               LET sprites == last.sprites
                   unit(t) == DistinctUpTo(sprites, FirstIndex(sprites, t)) - 1
               IN  /\ {last.binds[b].unit : b \in 1..Len(last.binds)}
                          = 0..(K(sprites) - 1)
                   /\ {last.data[k].texture : k \in 1..Len(last.data)}
                          = 0..(K(sprites) - 1)
                   /\ \A i \in 1..Len(sprites) :
                          UnitsOf(last.data, i) = {unit(sprites[i])}
                   /\ sprites /= <<>> =>
                          /\ DOMAIN TextureUnitMap = Textures(sprites)
                          /\ \A t \in Textures(sprites) : TextureUnitMap[t] = unit(t)

\* A completed draw whose first texture has the larger id: it still gets
\* unit 0.
C26_Witness ==
    /\ DrewOk
    /\ last.sprites = <<2, 1, 2>>
    /\ TextureUnitMap[2] = 0
    /\ TextureUnitMap[1] = 1

\* --------------------------------------------------------------- C27
\* C27: set_current_context(w), as render and resize call it for a
\* registered window w: if w is already current, the map and the current
\* context are left as they were; otherwise, when the call succeeds, w's
\* context has moved out of the map (its slot empty) into current_context,
\* the previously current window p has its context stored back in its slot,
\* and no other slot has changed.
C27_SwitchMovesTwoSlots ==
    [][(last'.op \in {"render", "resize"} /\ IsSome(shared_resources)
            /\ last'.window \in DOMAIN contexts) =>
          LET w == last'.window IN
          IF IsSome(current_context) /\ Unwrap(current_context)[1] = w
          THEN /\ contexts' = contexts
               /\ current_context' = current_context
          ELSE last'.result = "ok" =>
                 /\ IsSome(contexts[w])
                 /\ current_context' = Some(<<w, Unwrap(contexts[w])>>)
                 /\ DOMAIN contexts' = DOMAIN contexts
                 /\ contexts'[w] = None
                 /\ IsSome(current_context) =>
                        contexts'[Unwrap(current_context)[1]]
                            = Some(Unwrap(current_context)[2])
                 /\ \A o \in DOMAIN contexts :
                        (o /= w /\ (IsSome(current_context) =>
                                        o /= Unwrap(current_context)[1]))
                            => contexts'[o] = contexts[o]]_vars

\* A switch from window 2 to window 1 while window 3 waits in the map.
C27_Witness ==
    /\ last.op = "render"
    /\ last.result = "ok"
    /\ last.window = 1
    /\ IsSome(current_context)
    /\ Unwrap(current_context)[1] = 1
    /\ DOMAIN contexts = {1, 2, 3}
    /\ contexts[1] = None
    /\ IsSome(contexts[2])
    /\ IsSome(contexts[3])
    /\ Unwrap(contexts[2]).id /= Unwrap(contexts[3]).id

\* --------------------------------------------------------------- C28
\* C28 (as claimed): after reallocate_vertex_buffer grows the buffer to
\* capacity C the index buffer holds exactly 6*C 16-bit indices, and for
\* every sprite i in [0, C) and k in [0, 6) the element 6*i + k is the exact
\* integer 4*i + [0,1,2,1,2,3][k], for every power-of-two C.
C28_IndicesAddressEverySprite ==
    /\ last.op = "reallocate_vertex_buffer" =>
           /\ IsPowerOfTwo(last.realloc[1])
           /\ last.args = <<6 * last.realloc[1]>>
    /\ last.op = "DrawElements" =>
           LET i == last.args[1] \div 6
               k == last.args[1] % 6
           IN  last.args[2] = 4 * i + QuadPattern[k + 1]

\* --------------------------------------------------------------- C29
\* C29 (as claimed): in the GLES and WebGL backends, after
\* reallocate_instance_buffer grows the buffer to capacity C, the number of
\* indices generated is 6*C, and in any case at least the 6*n indices a draw
\* of the n <= C sprites that caused the growth reads.
C29_GlesIndexCountCoversCapacity ==
    last.op = "reallocate_instance_buffer" =>
        /\ last.args[2] = 6 * last.realloc[1]
        /\ last.args[2] >= 6 * last.args[1]

\* --------------------------------------------------------------- C25
\* C25 (as claimed): in the mapped-buffer draw path the map-write-unmap cycle
\* is retried only a bounded number of times: whatever UnmapBuffer answers,
\* a draw that entered the loop ends, by returning or with a fatal error, and
\* never loops forever.
C25_DrawLeavesLoop ==
    (sprite_render.pc = "map") ~> (sprite_render.pc \in {"render", "idle"} \/ panicked)

\* --------------------------------------------------------------- C38
\* C38 (as claimed): in the mapped-buffer draw path every byte written
\* through the mapped pointer lies inside the mapped range: the mapped length
\* sprites.len() * size_of(SpriteInstance) covers the end of the last record
\* written, for every batch of one sprite or more, and that end stays within
\* the allocated buffer of instance_buffer_size * INSTANCE_STRIDE bytes.
C38_WritesInsideMappedRange ==
    (sprite_render.pc = "unmap" /\ IsSome(sprite_render.mapped)) =>
        /\ sprite_render.write_end <= Unwrap(sprite_render.mapped)
        /\ sprite_render.write_end
               <= sprite_render.instance_buffer_size * INSTANCE_STRIDE

\* --------------------------------------------------------------- C36
\* C36: between construction (or resume) and the next suspend the shared
\* buffer capacity buffer_size is 0 or a power of two, never decreases, is at
\* least the size of every batch drawn (so, never decreasing, of the largest
\* batch drawn so far on any window), and is changed only by draw_sprites:
\* add_window, remove_window, render, resize, clear_screen, finish and the
\* texture operations leave it unchanged.
C36_BufferOnlyGrowsByDraws ==
    [][(IsSome(shared_resources') /\ last'.op \notin {"suspend", "resume"}) =>
          LET after == Unwrap(shared_resources').buffer_size IN
          /\ after = 0 \/ IsPowerOfTwo(after)
          /\ IsSome(shared_resources)
          /\ after >= Unwrap(shared_resources).buffer_size
          /\ after /= Unwrap(shared_resources).buffer_size =>
                 last'.op = "draw_sprites"
          /\ (last'.op = "draw_sprites" /\ last'.result = "ok") =>
                 after >= Len(last'.sprites)]_vars

\* A small batch drawn on the second window after a larger one was drawn on
\* the first: the capacity is still that of the larger batch.
C36_Witness ==
    /\ last.op = "draw_sprites"
    /\ last.result = "ok"
    /\ last.window = 2
    /\ Len(last.sprites) = 1
    /\ last.realloc = <<>>
    /\ IsSome(shared_resources)
    /\ Unwrap(shared_resources).buffer_size = 4

\* --------------------------------------------------------------- C31
\* C31 (as claimed): when set_current_context switches from the current
\* window p to another window w, the native make-not-current of p's context
\* is issued before the native make-current of w's context, so that the last
\* native call of a render or resize that returns is the make-current of
\* w's context.
C31_ReleaseBeforeMakeCurrent ==
    (last.op \in {"render", "resize"} /\ last.result = "ok"
        /\ \E i \in 1..Len(last.native) : last.native[i][1] = "make_not_current") =>
        LET w == Unwrap(current_context)[2].id
            made == PositionOf(last.native, <<"make_current", w>>)
            released == CHOOSE i \in 1..Len(last.native) :
                            last.native[i][1] = "make_not_current"
        IN  /\ made /= 0
            /\ released < made
            /\ last.native[Len(last.native)] = <<"make_current", w>>

\* --------------------------------------------------------------- C35
\* C35 (as claimed): if making the requested context current fails inside
\* set_current_context, no context is lost: after the render or resize that
\* called it the previously current context is still in current_context and
\* the requested window's context is still stored in the map.
C35_FailedSwitchLosesNothing ==
    [][(last'.op \in {"render", "resize"} /\ last'.result /= "ok"
            /\ IsSome(shared_resources)
            /\ last'.native /= <<>>
            /\ last'.native[Len(last'.native)][1] = "make_current") =>
          /\ current_context' = current_context
          /\ contexts' = contexts]_vars

\* --------------------------------------------------------------- C33
\* C33 (as claimed): new_texture always activates a valid texture unit for
\* its upload: after any sequence of draws, including a draw that used all
\* max_texture_units units, the unit index it activates is in
\* [0, max_texture_units).
C33_NewTextureActivatesValidUnit ==
    (last.op = "new_texture" /\ last.active_unit /= <<>>) =>
        /\ last.active_unit[1] >= 0
        /\ last.active_unit[1] < Resources.max_texture_units

\* --------------------------------------------------------------- C34
\* C34 (as claimed): update_texture never panics while shared resources
\* exist: for every TextureId, registered or not, a call with an explicit
\* sub_rect (of a size whose byte count fits in 32 bits) returns Ok or
\* InvalidLength according to the data length alone.
C34_SubRectNeedsNoRegistry ==
    (last.op = "update_texture" /\ IsSome(shared_resources)
        /\ IsSome(last.args[3])
        /\ ~ExpectedLenOverflows(Unwrap(last.args[3])[3], Unwrap(last.args[3])[4])) =>
        LET rect == Unwrap(last.args[3]) IN
        last.result = IF WrongLength(last.args[2], rect[3], rect[4])
                      THEN "InvalidLength" ELSE "ok"

\* --------------------------------------------------------------- C32
\* C32 (as claimed): every texture unit a sprite can be assigned in a draw
\* has its sampler configured: the number of sampler indices uploaded to the
\* `text` uniform equals max_texture_units, which is also the length of the
\* array the upload reads from, for every value of max_texture_units.
C32_UniformCountIsUnitLimit ==
    (DrewOk /\ last.uniform_count /= <<>>) =>
        /\ last.uniform_count[1] = Resources.max_texture_units
        /\ last.uniform_count[1] = Len(TextUnits(Resources.max_texture_units))

\* --------------------------------------------------------------- C37
\* C37: in the GLES backend, add_window for a window id that is already
\* registered, current or not, returns after a warning without creating a
\* context and leaves the contexts map and current_context unchanged, so
\* calling it any number of times never changes which window is current.
C37_GlesAddWindowTwiceIsInert ==
    [][(last'.op = "gles::add_window" /\ last'.window \in DOMAIN contexts) =>
          /\ last'.result = "warned"
          /\ last'.created_contexts = <<>>
          /\ created' = created
          /\ contexts' = contexts
          /\ current_context' = current_context
          /\ ~panicked']_vars

\* A second add_window of a window that is registered and not current, two
\* other windows being registered, one of them current.
C37_Witness ==
    /\ last.op = "gles::add_window"
    /\ last.result = "warned"
    /\ last.window = 1
    /\ DOMAIN contexts = {1, 2, 3}
    /\ IsSome(contexts[1])
    /\ IsSome(current_context)
    /\ Unwrap(current_context)[1] = 3

====
